---- MODULE Spec2Model ----
(***************************************************************************)
(* A model of the transaction memory pool (src/src/txmempool.cpp): the     *)
(* entry index mapTx, the parent/child links mapLinks, the spend map       *)
(* mapNextTx, the descendant aggregates, the accounting counters, the      *)
(* prioritisation map, and the operations that add, remove, expire and     *)
(* trim entries, driven by the chain events (block connect / disconnect)   *)
(* that call them.                                                         *)
(***************************************************************************)
EXTENDS Integers, Sequences, FiniteSets, TLC

(***************************************************************************)
(* Bounds of the model.                                                    *)
(***************************************************************************)
\* entry times handed to addUnchecked range over 1..MaxTime
MaxTime == 2
\* PrioritiseTransaction is applied while the accumulated deltas stay <= MaxDelta
MaxDelta == 1
\* a block holds at most MaxBlockTxs of the model's transactions
MaxBlockTxs == 3
\* The visit budget UpdateTransactionsFromBlock hands to UpdateForDescendants.
\* The code passes 100; the model has fewer than 100 transactions, so the
\* budget is scaled down for the walk to be able to exceed it.
MaxDescendantsToVisit == 1
\* the sampling of a surplus trim passes over at most MaxSkipped entries
MaxSkipped == 1

\* the inputs of the trims: the multipliers and the rate (per 1000 bytes) of the
\* surplus trim and the usage it is asked to free; the size limits and the
\* reserved fees handed to StageTrimToSize
Multipliers == {2}

MinRelayRates == {1000}

SurplusUsages == {8}

\* the transactions PrioritiseTransaction is called for
PrioritisedTxIds == {2}

SizeLimits == {0, 16, 32, 1000}

FeesReserved == {0, 2}

(***************************************************************************)
(* The transactions of the model.  A transaction is opaque to the pool but *)
(* for its hash, its inputs (outpoints <<hash, n>>), the number of its     *)
(* outputs, its serialized size, its fee and its dynamic usage.  Hash 0 is *)
(* a confirmed transaction outside the model with two unspent outputs.     *)
(*    1 spends <<0,0>> and has two outputs                                 *)
(*    2 spends <<1,0>>,  3 spends <<1,1>>      (siblings)                  *)
(*    4 spends <<2,0>> and <<3,0>>             (diamond below 1)           *)
(*    5 spends <<1,0>> and <<1,1>>             (two outputs of one parent; *)
(*                                              conflicts with 2 and 3)    *)
(*    6 spends <<2,1>>                         (second child of 2)         *)
(*    7 spends <<0,1>>                         (independent, high fee,     *)
(*                                              large)                     *)
(***************************************************************************)
TxIds == 1..7

\* the transactions that take part in the chain events
ChainTxIds == 1..6

ExternalHashes == {0}

TxOf(h) ==
    CASE h = 1 -> [vin |-> << <<0, 0>> >>,          nOut |-> 2, nTxSize |-> 2, nFee |-> 1,  nUsageSize |-> 3]
      [] h = 2 -> [vin |-> << <<1, 0>> >>,          nOut |-> 2, nTxSize |-> 1, nFee |-> 1,  nUsageSize |-> 2]
      [] h = 3 -> [vin |-> << <<1, 1>> >>,          nOut |-> 1, nTxSize |-> 1, nFee |-> 2,  nUsageSize |-> 2]
      [] h = 4 -> [vin |-> << <<2, 0>>, <<3, 0>> >>, nOut |-> 1, nTxSize |-> 1, nFee |-> 4,  nUsageSize |-> 2]
      [] h = 5 -> [vin |-> << <<1, 0>>, <<1, 1>> >>, nOut |-> 1, nTxSize |-> 2, nFee |-> 3,  nUsageSize |-> 2]
      [] h = 6 -> [vin |-> << <<2, 1>> >>,          nOut |-> 1, nTxSize |-> 1, nFee |-> 1,  nUsageSize |-> 2]
      [] h = 7 -> [vin |-> << <<0, 1>> >>,          nOut |-> 1, nTxSize |-> 1, nFee |-> 30, nUsageSize |-> 14]

\* the outpoints a transaction spends, and the hashes they belong to
Prevouts(h) == { TxOf(h).vin[i] : i \in 1..Len(TxOf(h).vin) }

PrevHashes(h) == { o[1] : o \in Prevouts(h) }

(***************************************************************************)
(* memusage: a std::set node costs one allocation; a set's usage is the    *)
(* node cost times its size.                                               *)
(***************************************************************************)
IncrementalDynamicUsage == 1

DynamicUsage(s) == IncrementalDynamicUsage * Cardinality(s)

\* std::numeric_limits<uint64_t>::max(): above every sum the model can form
nNoLimit == 1000000

(***************************************************************************)
(* Iteration orders of the containers: std::set<uint256> and setEntries    *)
(* iterate by ascending hash, std::map<COutPoint, CInPoint> by (hash, n).  *)
(***************************************************************************)
RECURSIVE SeqOfSet(_)
SeqOfSet(S) ==
    IF S = {} THEN << >>
    ELSE LET m == CHOOSE x \in S : \A y \in S : x <= y
         IN  << m >> \o SeqOfSet(S \ {m})

OutPointLeq(a, b) == a[1] < b[1] \/ (a[1] = b[1] /\ a[2] <= b[2])

RECURSIVE SeqOfOutPoints(_)
SeqOfOutPoints(S) ==
    IF S = {} THEN << >>
    ELSE LET m == CHOOSE x \in S : \A y \in S : OutPointLeq(x, y)
         IN  << m >> \o SeqOfOutPoints(S \ {m})

SeqToSet(s) == { s[i] : i \in 1..Len(s) }

\* f without the keys in S
Erase(f, S) == [x \in DOMAIN f \ S |-> f[x]]

(***************************************************************************)
(* State.                                                                  *)
(***************************************************************************)
VARIABLES
    mapTx,             \* hash -> entry (fee, size, time, descendant aggregates)
    mapLinks,          \* hash -> [parents, children]
    mapNextTx,         \* outpoint -> [ptx, n]: the pool transaction and input spending it
    totalTxSize,       \* sum of the entries' sizes
    cachedInnerUsage,  \* entries' dynamic usage plus the usage of the link sets
    mapDeltas,         \* hash -> <<priority delta, fee delta>>
    confirmed,         \* hashes of the model's transactions that are in the chain
    vDisconnect,       \* block being disconnected: transactions still to re-add
    vHashUpdate,       \* hashes re-added from the block being disconnected
    fDisconnecting,    \* a block disconnection is under way
    lastOp,            \* the last operation with its arguments and results
    assembler,         \* the block assembler: options, cursors and the template being built
    partialBlock,      \* the compact block being reconstructed
    mainSignals,       \* the notification queue and what the dual listener has received
    threads            \* per thread: the locks it holds and the lock steps it has left

vars == << mapTx, mapLinks, mapNextTx, totalTxSize, cachedInnerUsage, mapDeltas,
           confirmed, vDisconnect, vHashUpdate, fDisconnecting, lastOp,
           assembler, partialBlock, mainSignals, threads >>

\* the assembler, the reconstructor, the notification queue and the threads'
\* lock steps, left alone while the pool is operated on
auxVars == << assembler, partialBlock, mainSignals, threads >>

\* the threads that call into the pool, the assembler and the reconstructor
Threads == {"validation", "miner", "net"}

NoSignals == [queue |-> << >>, delivered |-> << >>]

NoThreads == [t \in Threads |-> [held |-> << >>, todo |-> << >>]]

NoAssembler == [phase |-> "idle"]

NoPartialBlock == [phase |-> "idle"]

\* the pool as one value, for the operators below; estimator is the list of
\* the calls made on minerPolicyEstimator since the operation began
Pool == [mapTx |-> mapTx, mapLinks |-> mapLinks, mapNextTx |-> mapNextTx,
         totalTxSize |-> totalTxSize, cachedInnerUsage |-> cachedInnerUsage,
         mapDeltas |-> mapDeltas, estimator |-> << >>]

\* a call on minerPolicyEstimator: processTransaction and removeTx with a
\* hash, processBlock with the entries handed to it
EstimatorCall(call, hash, entries) == [call |-> call, hash |-> hash, entries |-> entries]

EmptyMap == [x \in {} |-> 0]

(***************************************************************************)
(* CTxMemPoolEntry.                                                        *)
(***************************************************************************)
\* the constructor: aggregates start at the entry's own values
CTxMemPoolEntry(h, nTime) ==
    [nFee |-> TxOf(h).nFee, nTxSize |-> TxOf(h).nTxSize, nUsageSize |-> TxOf(h).nUsageSize,
     nTime |-> nTime,
     nCountWithDescendants |-> 1,
     nSizeWithDescendants |-> TxOf(h).nTxSize,
     nFeesWithDescendants |-> TxOf(h).nFee]

\* a dirty entry is marked by a descendant count of 0
IsDirty(e) == e.nCountWithDescendants = 0

SetDirty(e) ==
    [e EXCEPT !.nCountWithDescendants = 0,
              !.nSizeWithDescendants = e.nTxSize,
              !.nFeesWithDescendants = e.nFee]

UpdateState(e, modifySize, modifyFee, modifyCount) ==
    IF ~IsDirty(e)
    THEN [e EXCEPT !.nSizeWithDescendants = @ + modifySize,
                   !.nFeesWithDescendants = @ + modifyFee,
                   !.nCountWithDescendants = @ + modifyCount]
    ELSE e

(***************************************************************************)
(* Links.                                                                  *)
(***************************************************************************)
GetMemPoolParents(p, entry) == p.mapLinks[entry].parents

GetMemPoolChildren(p, entry) == p.mapLinks[entry].children

\* fault: a child link is added or erased without accounting for its usage
UpdateChild_NoUsage(p, entry, child, add) ==
    LET kids == p.mapLinks[entry].children IN
    IF add THEN [p EXCEPT !.mapLinks[entry].children = kids \cup {child}]
    ELSE [p EXCEPT !.mapLinks[entry].children = kids \ {child}]

UpdateChild(p, entry, child, add) ==
    LET kids == p.mapLinks[entry].children IN
    IF add /\ child \notin kids
    THEN [p EXCEPT !.mapLinks[entry].children = kids \cup {child},
                   !.cachedInnerUsage = @ + IncrementalDynamicUsage]
    ELSE IF ~add /\ child \in kids
    THEN [p EXCEPT !.mapLinks[entry].children = kids \ {child},
                   !.cachedInnerUsage = @ - IncrementalDynamicUsage]
    ELSE p

UpdateParent(p, entry, parent, add) ==
    LET pars == p.mapLinks[entry].parents IN
    IF add /\ parent \notin pars
    THEN [p EXCEPT !.mapLinks[entry].parents = pars \cup {parent},
                   !.cachedInnerUsage = @ + IncrementalDynamicUsage]
    ELSE IF ~add /\ parent \in pars
    THEN [p EXCEPT !.mapLinks[entry].parents = pars \ {parent},
                   !.cachedInnerUsage = @ - IncrementalDynamicUsage]
    ELSE p

\* a loop over a sequence that threads an accumulator (BOOST_FOREACH)
RECURSIVE FoldSeq(_, _, _)
FoldSeq(Op(_, _), acc, s) ==
    IF s = << >> THEN acc ELSE FoldSeq(Op, Op(acc, Head(s)), Tail(s))

(***************************************************************************)
(* CalculateMemPoolAncestors.  lim holds the four limits.                  *)
(***************************************************************************)
NoLimits == [limitAncestorCount |-> nNoLimit, limitAncestorSize |-> nNoLimit,
             limitDescendantCount |-> nNoLimit, limitDescendantSize |-> nNoLimit]

\* the scan of tx.vin for parents that are in the pool
RECURSIVE CollectParentHashes(_, _, _, _, _)
CollectParentHashes(p, vin, i, parentHashes, limitAncestorCount) ==
    IF i > Len(vin) THEN [ok |-> TRUE, set |-> parentHashes]
    ELSE IF vin[i][1] \in DOMAIN p.mapTx
         THEN LET s == parentHashes \cup {vin[i][1]} IN
              IF Cardinality(s) + 1 > limitAncestorCount
              THEN [ok |-> FALSE, set |-> s]
              ELSE CollectParentHashes(p, vin, i + 1, s, limitAncestorCount)
         ELSE CollectParentHashes(p, vin, i + 1, parentHashes, limitAncestorCount)

\* the walk over the parents of one staged entry
RECURSIVE StageParentsOf(_, _, _, _)
StageParentsOf(phs, setAncestors, stageParentSet, limitAncestorCount) ==
    IF phs = << >> THEN [ok |-> TRUE, stage |-> stageParentSet]
    ELSE LET phash == Head(phs)
             s == IF phash \notin setAncestors THEN stageParentSet \cup {phash}
                                                ELSE stageParentSet
         IN  IF Cardinality(s) + Cardinality(setAncestors) + 1 > limitAncestorCount
             THEN [ok |-> FALSE, stage |-> s]
             ELSE StageParentsOf(Tail(phs), setAncestors, s, limitAncestorCount)

\* one level of the walk: the entries of parentHashes in order
RECURSIVE WalkStage(_, _, _, _, _, _, _)
WalkStage(p, its, entrySize, total, setAncestors, stageParentSet, lim) ==
    IF its = << >>
    THEN [ok |-> TRUE, total |-> total, stage |-> stageParentSet, err |-> ""]
    ELSE LET stageit == Head(its)
             e == p.mapTx[stageit]
             t == total + e.nTxSize
             fail(msg) == [ok |-> FALSE, total |-> t, stage |-> stageParentSet, err |-> msg]
         IN  IF e.nSizeWithDescendants + entrySize > lim.limitDescendantSize
             THEN fail("exceeds descendant size limit")
             ELSE IF e.nCountWithDescendants + 1 > lim.limitDescendantCount
             THEN fail("too many descendants")
             ELSE IF t > lim.limitAncestorSize
             THEN fail("exceeds ancestor size limit")
             ELSE LET r == StageParentsOf(SeqOfSet(GetMemPoolParents(p, stageit)),
                                          setAncestors, stageParentSet,
                                          lim.limitAncestorCount)
                  IN  IF ~r.ok
                      THEN fail("too many unconfirmed ancestors")
                      ELSE WalkStage(p, Tail(its), entrySize, t, setAncestors, r.stage, lim)

RECURSIVE WalkAncestors(_, _, _, _, _, _)
WalkAncestors(p, parentHashes, entrySize, total, setAncestors, lim) ==
    IF parentHashes = {}
    THEN [ret |-> TRUE, setAncestors |-> setAncestors, errString |-> ""]
    ELSE LET anc == setAncestors \cup parentHashes
             r == WalkStage(p, SeqOfSet(parentHashes), entrySize, total, anc, {}, lim)
         IN  IF ~r.ok
             THEN [ret |-> FALSE, setAncestors |-> anc, errString |-> r.err]
             ELSE WalkAncestors(p, r.stage, entrySize, r.total, anc, lim)

\* fault: the number of direct parents is not checked against the limit
CalculateMemPoolAncestors_NoParentLimit(p, h, lim) ==
    LET c == CollectParentHashes(p, TxOf(h).vin, 1, {}, nNoLimit) IN
    WalkAncestors(p, c.set, TxOf(h).nTxSize, TxOf(h).nTxSize, {}, lim)

\* fault: the walk stops at the direct parents
CalculateMemPoolAncestors_ParentsOnly(p, h, lim) ==
    LET c == CollectParentHashes(p, TxOf(h).vin, 1, {}, lim.limitAncestorCount) IN
    [ret |-> c.ok, setAncestors |-> c.set, errString |-> ""]

\* entry is the transaction with hash h (in the pool or not); setAncestors starts empty
CalculateMemPoolAncestors(p, h, lim) ==
    LET c == CollectParentHashes(p, TxOf(h).vin, 1, {}, lim.limitAncestorCount) IN
    IF ~c.ok
    THEN [ret |-> FALSE, setAncestors |-> {}, errString |-> "too many unconfirmed parents"]
    ELSE WalkAncestors(p, c.set, TxOf(h).nTxSize, TxOf(h).nTxSize, {}, lim)

(***************************************************************************)
(* Updates of ancestors and children on addition and removal.              *)
(***************************************************************************)
\* fault: a removal adds the entry to its ancestors' aggregates once more
UpdateAncestorsOf_AlwaysAdd(p, add, hash, setAncestors) ==
    LET p1 == FoldSeq(LAMBDA q, phash : UpdateChild(q, phash, hash, add),
                      p, SeqOfSet(GetMemPoolParents(p, hash)))
    IN  FoldSeq(LAMBDA q, ancestorHash :
                    [q EXCEPT !.mapTx[ancestorHash] =
                                  UpdateState(@, p.mapTx[hash].nTxSize, p.mapTx[hash].nFee, 1)],
                p1, SeqOfSet(setAncestors))

UpdateAncestorsOf(p, add, hash, setAncestors) ==
    LET p1 == FoldSeq(LAMBDA q, phash : UpdateChild(q, phash, hash, add),
                      p, SeqOfSet(GetMemPoolParents(p, hash)))
        updateCount == IF add THEN 1 ELSE -1
        updateSize == updateCount * p.mapTx[hash].nTxSize
        updateFee == updateCount * p.mapTx[hash].nFee
    IN  FoldSeq(LAMBDA q, ancestorHash :
                    [q EXCEPT !.mapTx[ancestorHash] =
                                  UpdateState(@, updateSize, updateFee, updateCount)],
                p1, SeqOfSet(setAncestors))

\* fault: the children of a removed entry keep it among their parents
UpdateChildrenForRemoval_KeepParent(p, hash) == p

UpdateChildrenForRemoval(p, hash) ==
    FoldSeq(LAMBDA q, updateIt : UpdateParent(q, updateIt, hash, FALSE),
            p, SeqOfSet(GetMemPoolChildren(p, hash)))

UpdateForRemoveFromMempool(p, hashesToRemove) ==
    LET p1 == FoldSeq(LAMBDA q, removeHash :
                          UpdateAncestorsOf(q, FALSE, removeHash,
                              CalculateMemPoolAncestors(q, removeHash, NoLimits).setAncestors),
                      p, SeqOfSet(hashesToRemove))
    IN  FoldSeq(LAMBDA q, removeHash : UpdateChildrenForRemoval(q, removeHash),
                p1, SeqOfSet(hashesToRemove))

\* fault: the spends of a removed entry stay in mapNextTx
removeUnchecked_KeepNextTx(p, hash) ==
    [p EXCEPT !.totalTxSize = @ - p.mapTx[hash].nTxSize,
              !.cachedInnerUsage = @ - p.mapTx[hash].nUsageSize
                                     - (DynamicUsage(p.mapLinks[hash].parents)
                                        + DynamicUsage(p.mapLinks[hash].children)),
              !.mapLinks = Erase(@, {hash}),
              !.mapTx = Erase(@, {hash}),
              !.estimator = Append(@, EstimatorCall("removeTx", hash, << >>))]

removeUnchecked(p, hash) ==
    [p EXCEPT !.mapNextTx = Erase(@, Prevouts(hash)),
              !.totalTxSize = @ - p.mapTx[hash].nTxSize,
              !.cachedInnerUsage = @ - p.mapTx[hash].nUsageSize
                                     - (DynamicUsage(p.mapLinks[hash].parents)
                                        + DynamicUsage(p.mapLinks[hash].children)),
              !.mapLinks = Erase(@, {hash}),
              !.mapTx = Erase(@, {hash}),
              !.estimator = Append(@, EstimatorCall("removeTx", hash, << >>))]

RemoveStaged(p, stage) ==
    FoldSeq(LAMBDA q, hash : removeUnchecked(q, hash),
            UpdateForRemoveFromMempool(p, stage), SeqOfSet(stage))

\* the level-by-level walk down the children links
RECURSIVE WalkDescendants(_, _, _)
WalkDescendants(p, stage, setDescendants) ==
    IF stage = {} THEN setDescendants
    ELSE LET d == setDescendants \cup stage
             setNext == { c \in UNION { GetMemPoolChildren(p, s) : s \in stage } : c \notin d }
         IN  WalkDescendants(p, setNext, d)

\* fault: only the entry itself is collected
CalculateDescendants_OnlySelf(p, hash, setDescendants) == setDescendants \cup {hash}

CalculateDescendants(p, hash, setDescendants) ==
    WalkDescendants(p, IF hash \notin setDescendants THEN {hash} ELSE {}, setDescendants)

(***************************************************************************)
(* remove, removeConflicts, removeForBlock.  Each returns the pool and the *)
(* list it appended to.                                                    *)
(***************************************************************************)
remove(p, origTx, removed, fRecursive) ==
    LET spenders == { p.mapNextTx[o].ptx :
                        o \in { <<origTx, i>> : i \in 0..(TxOf(origTx).nOut - 1) }
                                \cap DOMAIN p.mapNextTx }
        txToRemove == IF origTx \in DOMAIN p.mapTx THEN {origTx}
                      ELSE IF fRecursive THEN spenders
                      ELSE {}
        setAllRemoves == IF fRecursive
                         THEN FoldSeq(LAMBDA acc, hash : CalculateDescendants(p, hash, acc),
                                      {}, SeqOfSet(txToRemove))
                         ELSE txToRemove
    IN  [pool |-> RemoveStaged(p, setAllRemoves),
         removed |-> removed \o SeqOfSet(setAllRemoves)]

\* fault: a conflicting entry is removed without its descendants
removeConflicts_NotRecursive(p, tx, removed) ==
    FoldSeq(LAMBDA r, prevout :
                IF prevout \in DOMAIN r.pool.mapNextTx
                   /\ r.pool.mapNextTx[prevout].ptx # tx
                THEN remove(r.pool, r.pool.mapNextTx[prevout].ptx, r.removed, FALSE)
                ELSE r,
            [pool |-> p, removed |-> removed], TxOf(tx).vin)

removeConflicts(p, tx, removed) ==
    FoldSeq(LAMBDA r, prevout :
                IF prevout \in DOMAIN r.pool.mapNextTx
                   /\ r.pool.mapNextTx[prevout].ptx # tx
                THEN remove(r.pool, r.pool.mapNextTx[prevout].ptx, r.removed, TRUE)
                ELSE r,
            [pool |-> p, removed |-> removed], TxOf(tx).vin)

\* fault: the delta of a transaction of the block is kept
ClearPrioritisation_Keep(p, hash) == p

ClearPrioritisation(p, hash) == [p EXCEPT !.mapDeltas = Erase(@, {hash})]

\* the estimator that is handed the entries as they are once the block's
\* transactions were removed: those still in the pool
removeForBlock_EntriesAfter(p, vtx) ==
    LET r == FoldSeq(LAMBDA a, tx :
                         LET r1 == remove(a.pool, tx, << >>, FALSE)
                             r2 == removeConflicts(r1.pool, tx, a.conflicts)
                         IN  [pool |-> ClearPrioritisation(r2.pool, tx),
                              conflicts |-> r2.removed],
                     [pool |-> p, conflicts |-> << >>], vtx)
        entries == FoldSeq(LAMBDA es, tx :
                               IF tx \in DOMAIN r.pool.mapTx
                               THEN Append(es, [hash |-> tx, entry |-> r.pool.mapTx[tx]])
                               ELSE es,
                           << >>, vtx)
    IN  [pool |-> [r.pool EXCEPT !.estimator =
                      Append(@, EstimatorCall("processBlock", 0, entries))],
         conflicts |-> r.conflicts, entries |-> entries]

\* lines 519-536: entries holds copies of the pool entries of the block's
\* transactions, taken before the loop that removes
removeForBlock(p, vtx) ==
    LET entries == FoldSeq(LAMBDA es, tx :
                               IF tx \in DOMAIN p.mapTx
                               THEN Append(es, [hash |-> tx, entry |-> p.mapTx[tx]])
                               ELSE es,
                           << >>, vtx)
        r == FoldSeq(LAMBDA a, tx :
                         LET r1 == remove(a.pool, tx, << >>, FALSE)
                             r2 == removeConflicts(r1.pool, tx, a.conflicts)
                         IN  [pool |-> ClearPrioritisation(r2.pool, tx),
                              conflicts |-> r2.removed],
                     [pool |-> p, conflicts |-> << >>], vtx)
    IN  [pool |-> [r.pool EXCEPT !.estimator =
                      Append(@, EstimatorCall("processBlock", 0, entries))],
         conflicts |-> r.conflicts, entries |-> entries]

(***************************************************************************)
(* addUnchecked.                                                           *)
(***************************************************************************)
addUncheckedWithAncestors(p, hash, entry, setAncestors) ==
    LET vin == TxOf(hash).vin
        p1 == [p EXCEPT !.mapTx = (hash :> entry) @@ @,
                        !.mapLinks = (hash :> [parents |-> {}, children |-> {}]) @@ @,
                        !.cachedInnerUsage = @ + entry.nUsageSize,
                        !.mapNextTx = [o \in Prevouts(hash) |->
                                          [ptx |-> hash,
                                           n |-> (CHOOSE i \in 1..Len(vin) :
                                                     vin[i] = o /\ \A j \in (i+1)..Len(vin) : vin[j] # o) - 1]]
                                      @@ @]
        setParentTransactions == PrevHashes(hash)
        p2 == FoldSeq(LAMBDA q, phash :
                          IF phash \in DOMAIN q.mapTx THEN UpdateParent(q, hash, phash, TRUE) ELSE q,
                      p1, SeqOfSet(setParentTransactions))
        p3 == UpdateAncestorsOf(p2, TRUE, hash, setAncestors)
    IN  [p3 EXCEPT !.totalTxSize = @ + entry.nTxSize,
                   !.estimator = Append(@, EstimatorCall("processTransaction", hash, << >>))]

\* the overload that computes the ancestors itself
addUnchecked(p, hash, entry) ==
    addUncheckedWithAncestors(p, hash, entry,
                              CalculateMemPoolAncestors(p, hash, NoLimits).setAncestors)

(***************************************************************************)
(* UpdateForDescendants and UpdateTransactionsFromBlock.                   *)
(* The walk threads st = [ok, n, all, add]: ok is FALSE once the function  *)
(* has returned false, n is nChildrenToVisit, all is setAllDescendants,    *)
(* add is entriesToAdd.                                                    *)
(***************************************************************************)
\* one child of a staged entry
VisitChild(p, st, childEntry, maxDescendantsToVisit, cachedDescendants, setExclude) ==
    IF ~st.ok THEN st
    ELSE LET s1 == IF childEntry \in DOMAIN cachedDescendants
                   THEN FoldSeq(LAMBDA a, cacheEntry :
                                    IF cacheEntry \notin a.all
                                    THEN [a EXCEPT !.all = @ \cup {cacheEntry},
                                                   !.n = IF cacheEntry \notin setExclude
                                                            /\ cacheEntry \notin a.add
                                                         THEN @ + 1 ELSE @]
                                    ELSE a,
                                st, SeqOfSet(cachedDescendants[childEntry]))
                   ELSE IF childEntry \notin st.all
                   THEN IF childEntry \notin st.add
                        THEN [st EXCEPT !.add = @ \cup {childEntry},
                                        !.n = IF childEntry \notin setExclude THEN @ + 1 ELSE @]
                        ELSE st
                   ELSE st
         IN  IF s1.n > maxDescendantsToVisit THEN [s1 EXCEPT !.ok = FALSE] ELSE s1

\* one staged entry: give up on a dirty one, else visit its children
VisitStaged(p, st, cit, maxDescendantsToVisit, cachedDescendants, setExclude) ==
    IF ~st.ok THEN st
    ELSE IF IsDirty(p.mapTx[cit]) THEN [st EXCEPT !.ok = FALSE]
    ELSE FoldSeq(LAMBDA a, childEntry :
                     VisitChild(p, a, childEntry, maxDescendantsToVisit,
                                cachedDescendants, setExclude),
                 st, SeqOfSet(GetMemPoolChildren(p, cit)))

RECURSIVE WalkForDescendants(_, _, _, _, _, _)
WalkForDescendants(p, stageEntries, st, maxDescendantsToVisit, cachedDescendants, setExclude) ==
    IF stageEntries = {} THEN st
    ELSE LET s0 == [st EXCEPT !.all = @ \cup stageEntries, !.add = {}]
             s1 == FoldSeq(LAMBDA a, cit :
                               VisitStaged(p, a, cit, maxDescendantsToVisit,
                                           cachedDescendants, setExclude),
                           s0, SeqOfSet(stageEntries))
         IN  IF ~s1.ok THEN s1
             ELSE WalkForDescendants(p, s1.add, s1, maxDescendantsToVisit,
                                     cachedDescendants, setExclude)

RECURSIVE SumOver(_, _)
SumOver(f, S) ==
    IF S = {} THEN 0
    ELSE LET x == CHOOSE y \in S : TRUE IN f[x] + SumOver(f, S \ {x})

UpdateForDescendants(p, updateIt, maxDescendantsToVisit, cachedDescendants, setExclude) ==
    LET st == WalkForDescendants(p, GetMemPoolChildren(p, updateIt),
                                 [ok |-> TRUE, n |-> 0, all |-> {}, add |-> {}],
                                 maxDescendantsToVisit, cachedDescendants, setExclude)
        counted == st.all \ setExclude
        modifySize == SumOver([c \in counted |-> p.mapTx[c].nTxSize], counted)
        modifyFee == SumOver([c \in counted |-> p.mapTx[c].nFee], counted)
        modifyCount == Cardinality(counted)
    IN  IF ~st.ok
        THEN [ret |-> FALSE, pool |-> p, cachedDescendants |-> cachedDescendants]
        ELSE [ret |-> TRUE,
              pool |-> [p EXCEPT !.mapTx[updateIt] =
                                     UpdateState(@, modifySize, modifyFee, modifyCount)],
              cachedDescendants |-> IF counted = {} THEN cachedDescendants
                                    ELSE (updateIt :> counted) @@ cachedDescendants]

\* the hashes of the pool transactions spending an output of hash, by outpoint
SpendersInOrder(p, hash) ==
    LET outs == SeqOfOutPoints({ o \in DOMAIN p.mapNextTx : o[1] = hash })
    IN  [i \in 1..Len(outs) |-> p.mapNextTx[outs[i]].ptx]

UpdateTransactionsFromBlock(p, vHashesToUpdate) ==
    LET setAlreadyIncluded == SeqToSet(vHashesToUpdate)
        OneHash(a, hash) ==
            IF hash \notin DOMAIN a.pool.mapTx THEN a
            ELSE LET kids == SpendersInOrder(a.pool, hash)
                     \* setChildren.insert(childIter).second: the first occurrence
                     linked == FoldSeq(LAMBDA q, i :
                                   IF (\A j \in 1..(i-1) : kids[j] # kids[i])
                                      /\ kids[i] \notin setAlreadyIncluded
                                   THEN UpdateParent(UpdateChild(q, hash, kids[i], TRUE),
                                                     kids[i], hash, TRUE)
                                   ELSE q,
                                   a.pool, [i \in 1..Len(kids) |-> i])
                     u == UpdateForDescendants(linked, hash, MaxDescendantsToVisit,
                                               a.cache, setAlreadyIncluded)
                 IN  IF ~u.ret
                     THEN [pool |-> [linked EXCEPT !.mapTx[hash] = SetDirty(@)],
                           cache |-> u.cachedDescendants]
                     ELSE [pool |-> u.pool, cache |-> u.cachedDescendants]
        rev == [i \in 1..Len(vHashesToUpdate) |->
                    vHashesToUpdate[Len(vHashesToUpdate) + 1 - i]]
    IN  FoldSeq(OneHash, [pool |-> p, cache |-> EmptyMap], rev).pool

(***************************************************************************)
(* Expire, prioritisation.                                                 *)
(***************************************************************************)
\* fault: the entries whose time equals the cutoff are expired as well
Expire_Inclusive(p, time) ==
    LET toremove == { h \in DOMAIN p.mapTx : p.mapTx[h].nTime <= time }
        stage == FoldSeq(LAMBDA acc, hash : CalculateDescendants(p, hash, acc),
                         {}, SeqOfSet(toremove))
    IN  [pool |-> RemoveStaged(p, stage), ret |-> Cardinality(stage)]

Expire(p, time) ==
    LET toremove == { h \in DOMAIN p.mapTx : p.mapTx[h].nTime < time }
        stage == FoldSeq(LAMBDA acc, hash : CalculateDescendants(p, hash, acc),
                         {}, SeqOfSet(toremove))
    IN  [pool |-> RemoveStaged(p, stage), ret |-> Cardinality(stage)]

PrioritiseTransaction(p, hash, dPriorityDelta, nFeeDelta) ==
    LET deltas == IF hash \in DOMAIN p.mapDeltas THEN p.mapDeltas[hash] ELSE <<0, 0>>
    IN  [p EXCEPT !.mapDeltas =
            (hash :> <<deltas[1] + dPriorityDelta, deltas[2] + nFeeDelta>>) @@ @]

\* the in/out arguments dPriorityDelta and nFeeDelta after the call
ApplyDeltas(p, hash, dPriorityDelta, nFeeDelta) ==
    IF hash \notin DOMAIN p.mapDeltas THEN <<dPriorityDelta, nFeeDelta>>
    ELSE <<dPriorityDelta + p.mapDeltas[hash][1], nFeeDelta + p.mapDeltas[hash][2]>>

removeCoinbaseSpends(p, immature) ==
    LET transactionsToRemove ==
            SeqOfSet({ h \in DOMAIN p.mapTx :
                         \E o \in Prevouts(h) : o[1] \notin DOMAIN p.mapTx /\ o[1] \in immature })
    IN  FoldSeq(LAMBDA q, tx : remove(q, tx, << >>, TRUE).pool, p, transactionsToRemove)

(***************************************************************************)
(* Memory accounting.  memusage charges one allocation per node of a map   *)
(* or set; the overhead of an entry in mapTx is one allocation.            *)
(***************************************************************************)
\* memusage::MallocUsage(sizeof(CTxMemPoolEntry) + 9 * sizeof(void*))
EntryOverhead == 1

DynamicMemoryUsage(p) ==
    EntryOverhead * Cardinality(DOMAIN p.mapTx)
      + DynamicUsage(DOMAIN p.mapNextTx) + DynamicUsage(DOMAIN p.mapDeltas)
      + DynamicUsage(DOMAIN p.mapLinks) + p.cachedInnerUsage

\* the usage an entry will add: its own, a mapNextTx node and a link per input,
\* a mapLinks node
GuessDynamicMemoryUsage(h, entry) ==
    EntryOverhead + entry.nUsageSize
      + (IncrementalDynamicUsage + IncrementalDynamicUsage) * Len(TxOf(h).vin)
      + IncrementalDynamicUsage

(***************************************************************************)
(* The index mapTx.get<1>(): descending descendant score                   *)
(* max(fee/size, fees with descendants / size with descendants), older     *)
(* entries first among equal scores (then by hash, in the model).          *)
(***************************************************************************)
UseDescendantFeeRate(a) ==
    a.nFeesWithDescendants * a.nTxSize > a.nFee * a.nSizeWithDescendants

ScoreFees(a) == IF UseDescendantFeeRate(a) THEN a.nFeesWithDescendants ELSE a.nFee

ScoreSize(a) == IF UseDescendantFeeRate(a) THEN a.nSizeWithDescendants ELSE a.nTxSize

\* a comes before b in the index
CompareTxMemPoolEntryByFee(p, ha, hb) ==
    LET a == p.mapTx[ha]
        b == p.mapTx[hb]
        f1 == ScoreFees(a) * ScoreSize(b)
        f2 == ScoreSize(a) * ScoreFees(b)
    IN  IF f1 # f2 THEN f1 > f2
        ELSE IF a.nTime # b.nTime THEN a.nTime < b.nTime
        ELSE ha < hb

\* the hashes from rbegin() to rend(): worst score first
RECURSIVE ReverseByScore(_, _)
ReverseByScore(p, S) ==
    IF S = {} THEN << >>
    ELSE LET m == CHOOSE x \in S : \A y \in S \ {x} : CompareTxMemPoolEntryByFee(p, y, x)
         IN  << m >> \o ReverseByScore(p, S \ {m})

(***************************************************************************)
(* TrimMempool.  The sampling (insecure_rand() % 10) is the set skip of    *)
(* the entries the call passes over.                                       *)
(***************************************************************************)
iterperfail == 10

failmax == 10

\* fault: the walk does not look for the spenders of a transaction
SpendersOf_None(p, hashnow) == << >>

\* the spenders of hashnow's outputs, one per mapNextTx entry, in map order
SpendersOf(p, hashnow) ==
    LET outs == SeqOfOutPoints({ o \in DOMAIN p.mapNextTx : o[1] = hashnow })
    IN  [i \in 1..Len(outs) |-> p.mapNextTx[outs[i]].ptx]

\* the breadth-first walk over the descendants of a candidate; w holds the walk's
\* todo, now, nowfee, nowsize, nowusage, the call's itertotal and good
RECURSIVE TrimWalk(_, _, _, _, _, _, _, _)
TrimWalk(p, w, protect, nFeesReserved, feeToUse, iterextra, fails, c) ==
    IF w.todo = << >> THEN w
    ELSE
      LET hashnow == Head(w.todo)
          itertotal == w.itertotal + 1
          origTx == p.mapTx[hashnow]
          nowfee == w.nowfee + origTx.nFee
          now == w.now \cup {hashnow}
          next == SelectSeq(SpendersOf(p, hashnow),
                            LAMBDA nexthash : ~(nexthash \in c.stage \/ nexthash \in now))
      IN  IF hashnow \in protect THEN [w EXCEPT !.good = FALSE]
          ELSE IF itertotal > iterextra + iterperfail * (fails + 1)
          THEN [w EXCEPT !.good = FALSE, !.itertotal = itertotal]
          ELSE IF nFeesReserved + c.nFeesRemoved + nowfee > feeToUse
          THEN [w EXCEPT !.good = FALSE, !.itertotal = itertotal, !.nowfee = nowfee]
          ELSE TrimWalk(p,
                        [todo |-> Tail(w.todo) \o next, now |-> now, nowfee |-> nowfee,
                         nowsize |-> w.nowsize + origTx.nTxSize,
                         nowusage |-> w.nowusage + GuessDynamicMemoryUsage(hashnow, origTx),
                         itertotal |-> itertotal, good |-> TRUE],
                        protect, nFeesReserved, feeToUse, iterextra, fails, c)

\* the loop over the index from position i on; c holds usageRemoved, fails,
\* itertotal, stage and nFeesRemoved
RECURSIVE TrimLoop(_, _, _, _, _, _, _, _, _, _, _)
TrimLoop(p, order, i, skip, sizeToTrim, protect, nFeesReserved, sizeToUse, feeToUse, iterextra, c) ==
    IF ~(c.usageRemoved < sizeToTrim /\ i <= Len(order)) THEN c
    ELSE
      LET hash == order[i]
          e == p.mapTx[hash]
          w == TrimWalk(p, [todo |-> << hash >>, now |-> {}, nowfee |-> 0, nowsize |-> 0,
                            nowusage |-> 0, itertotal |-> c.itertotal, good |-> TRUE],
                        protect, nFeesReserved, feeToUse, iterextra, c.fails, c)
          good == w.good /\ ~(w.nowfee * sizeToUse > feeToUse * w.nowsize)
      IN  IF hash \in skip \/ hash \in c.stage
          THEN TrimLoop(p, order, i + 1, skip, sizeToTrim, protect, nFeesReserved,
                        sizeToUse, feeToUse, iterextra, c)
          ELSE IF e.nFee * sizeToUse > feeToUse * e.nTxSize THEN c
          ELSE IF good
          THEN TrimLoop(p, order, i + 1, skip, sizeToTrim, protect, nFeesReserved,
                        sizeToUse, feeToUse, iterextra,
                        [c EXCEPT !.stage = @ \cup w.now,
                                  !.nFeesRemoved = @ + w.nowfee,
                                  !.usageRemoved = @ + w.nowusage,
                                  !.itertotal = w.itertotal])
          ELSE IF c.fails + 1 > failmax
          THEN [c EXCEPT !.fails = @ + 1, !.itertotal = w.itertotal]
          ELSE TrimLoop(p, order, i + 1, skip, sizeToTrim, protect, nFeesReserved,
                        sizeToUse, feeToUse, iterextra,
                        [c EXCEPT !.fails = @ + 1, !.itertotal = w.itertotal])

\* fault: the fees reserved by the caller are left out of the fee budget
TrimMempool_IgnoreReserved(p, skip, sizeToTrim, protect, nFeesReserved, sizeToUse, feeToUse, mustTrimAllSize, iterextra, stage, nFeesRemoved) ==
    LET c == TrimLoop(p, ReverseByScore(p, DOMAIN p.mapTx), 1, skip, sizeToTrim, protect,
                      0, sizeToUse, feeToUse, iterextra,
                      [usageRemoved |-> 0, fails |-> 0, itertotal |-> 0,
                       stage |-> stage, nFeesRemoved |-> nFeesRemoved])
        ret == IF mustTrimAllSize /\ c.usageRemoved < sizeToTrim THEN FALSE
               ELSE IF c.stage = {} /\ sizeToTrim > 0 THEN FALSE
               ELSE TRUE
    IN  [ret |-> ret, stage |-> c.stage, nFeesRemoved |-> c.nFeesRemoved]

\* returns ret with the stage and nFeesRemoved the call leaves
TrimMempool(p, skip, sizeToTrim, protect, nFeesReserved, sizeToUse, feeToUse, mustTrimAllSize, iterextra, stage, nFeesRemoved) ==
    LET c == TrimLoop(p, ReverseByScore(p, DOMAIN p.mapTx), 1, skip, sizeToTrim, protect,
                      nFeesReserved, sizeToUse, feeToUse, iterextra,
                      [usageRemoved |-> 0, fails |-> 0, itertotal |-> 0,
                       stage |-> stage, nFeesRemoved |-> nFeesRemoved])
        ret == IF mustTrimAllSize /\ c.usageRemoved < sizeToTrim THEN FALSE
               ELSE IF c.stage = {} /\ sizeToTrim > 0 THEN FALSE
               ELSE TRUE
    IN  [ret |-> ret, stage |-> c.stage, nFeesRemoved |-> c.nFeesRemoved]

Min(a, b) == IF a < b THEN a ELSE b

\* fault: the parents of the incoming transaction are not protected
StageTrimToSize_NoProtect(p, skip, sizelimit, toadd, nFeesReserved, stage, nFeesRemoved) ==
    LET entry == CTxMemPoolEntry(toadd, 0)
        incUsage == GuessDynamicMemoryUsage(toadd, entry)
        expsize == DynamicMemoryUsage(p) + incUsage
        sizeToTrim == Min(expsize - sizelimit, incUsage)
    IN  IF expsize <= sizelimit
        THEN [ret |-> TRUE, stage |-> stage, nFeesRemoved |-> nFeesRemoved]
        ELSE TrimMempool(p, skip, sizeToTrim, {}, nFeesReserved, entry.nTxSize,
                         entry.nFee, TRUE, 10, stage, nFeesRemoved)

StageTrimToSize(p, skip, sizelimit, toadd, nFeesReserved, stage, nFeesRemoved) ==
    LET entry == CTxMemPoolEntry(toadd, 0)
        protect == PrevHashes(toadd)
        incUsage == GuessDynamicMemoryUsage(toadd, entry)
        expsize == DynamicMemoryUsage(p) + incUsage
        sizeToTrim == Min(expsize - sizelimit, incUsage)
    IN  IF expsize <= sizelimit
        THEN [ret |-> TRUE, stage |-> stage, nFeesRemoved |-> nFeesRemoved]
        ELSE TrimMempool(p, skip, sizeToTrim, protect, nFeesReserved, entry.nTxSize,
                         entry.nFee, TRUE, 10, stage, nFeesRemoved)

\* CFeeRate::GetFee
GetFee(nSatoshisPerK, nSize) == (nSatoshisPerK * nSize) \div 1000

\* returns the pool after the trim
SurplusTrim(p, skip, multiplier, minRelayRate, usageToTrim) ==
    LET excessRate == multiplier * minRelayRate
        sizeToTrim == usageToTrim \div 4
        r == TrimMempool(p, skip, usageToTrim, {}, 0, sizeToTrim,
                         GetFee(excessRate, sizeToTrim), FALSE, 100, {}, 0)
    IN  [pool |-> IF r.ret THEN RemoveStaged(p, r.stage) ELSE p,
         ret |-> r.ret, stage |-> r.stage, nFeesRemoved |-> r.nFeesRemoved]

(***************************************************************************)
(* The chain around the pool.  An outpoint is available in the chain when  *)
(* its transaction is confirmed (or is hash 0) and no confirmed            *)
(* transaction spends it.                                                  *)
(***************************************************************************)
SpentInChain(o, conf) == \E c \in conf : o \in Prevouts(c)

\* a block the chain accepts on top of conf: inputs exist, nothing is spent twice
IsValidBlock(vtx, conf) ==
    /\ \A i, j \in 1..Len(vtx) : i # j => vtx[i] # vtx[j]
    /\ \A i \in 1..Len(vtx) :
         /\ vtx[i] \notin conf
         /\ \A o \in Prevouts(vtx[i]) :
              /\ o[1] \in ExternalHashes \cup conf \cup { vtx[j] : j \in 1..(i-1) }
              /\ ~SpentInChain(o, conf)
              /\ \A j \in 1..(i-1) : o \notin Prevouts(vtx[j])

\* the candidate blocks: up to MaxBlockTxs distinct transactions, none spending
\* an outpoint another one spends, a parent before its child
WellFormedBlock(vtx) ==
    \A i, j \in 1..Len(vtx) :
        i < j => /\ vtx[i] # vtx[j]
                 /\ Prevouts(vtx[i]) \cap Prevouts(vtx[j]) = {}
                 /\ vtx[j] \notin PrevHashes(vtx[i])

Blocks ==
    { vtx \in UNION { [1..n -> ChainTxIds] : n \in 1..MaxBlockTxs } : WellFormedBlock(vtx) }

\* the blocks that can be the tip of a chain holding conf
IsTipBlock(vtx, conf) ==
    /\ SeqToSet(vtx) \subseteq conf
    /\ IsValidBlock(vtx, conf \ SeqToSet(vtx))
    /\ \A c \in conf \ SeqToSet(vtx) : PrevHashes(c) \cap SeqToSet(vtx) = {}

SetPool(p) ==
    \E q \in {p} :
        /\ mapTx' = q.mapTx
        /\ mapLinks' = q.mapLinks
        /\ mapNextTx' = q.mapNextTx
        /\ totalTxSize' = q.totalTxSize
        /\ cachedInnerUsage' = q.cachedInnerUsage
        /\ mapDeltas' = q.mapDeltas

\* what lastOp records of an operation: its name, the block it was given,
\* the list it filled (removed / conflicts) and the value it returned
OpRecord(op, vtx, list, ret) ==
    [op |-> op, vtx |-> vtx, list |-> list, ret |-> ret]

chainVars == << confirmed, vDisconnect, vHashUpdate, fDisconnecting >>

Init ==
    /\ mapTx = EmptyMap
    /\ mapLinks = EmptyMap
    /\ mapNextTx = EmptyMap
    /\ totalTxSize = 0
    /\ cachedInnerUsage = 0
    /\ mapDeltas = EmptyMap
    /\ confirmed = {}
    /\ vDisconnect = << >>
    /\ vHashUpdate = << >>
    /\ fDisconnecting = FALSE
    /\ lastOp = OpRecord("init", << >>, << >>, 0)
    /\ assembler = NoAssembler
    /\ partialBlock = NoPartialBlock
    /\ mainSignals = NoSignals
    /\ threads = NoThreads

\* what admission checks before it calls addUnchecked: the transaction is new,
\* its inputs exist (in the chain or in the pool) and nothing spends them
CanAccept(h) ==
    /\ h \notin DOMAIN mapTx
    /\ h \notin confirmed
    /\ \A o \in Prevouts(h) :
         /\ o[1] \in DOMAIN mapTx \cup ExternalHashes \cup confirmed
         /\ o \notin DOMAIN mapNextTx
         /\ ~SpentInChain(o, confirmed)

\* a transaction arrives and is admitted
AddUnchecked(h, nTime) ==
    /\ ~fDisconnecting
    /\ CanAccept(h)
    /\ SetPool(addUnchecked(Pool, h, CTxMemPoolEntry(h, nTime)))
    /\ lastOp' = OpRecord("addUnchecked", << >>, << >>, 0)
    /\ UNCHANGED chainVars
    /\ UNCHANGED auxVars

Remove(h) ==
    /\ ~fDisconnecting
    /\ \E r \in { remove(Pool, h, << >>, TRUE) } :
         /\ SetPool(r.pool)
         /\ lastOp' = OpRecord("remove", << >>, r.removed, 0)
    /\ UNCHANGED chainVars
    /\ UNCHANGED auxVars

RemoveConflicts(h) ==
    /\ ~fDisconnecting
    /\ h \notin confirmed
    /\ \E r \in { removeConflicts(Pool, h, << >>) } :
         /\ SetPool(r.pool)
         /\ lastOp' = OpRecord("removeConflicts", << >>, r.removed, 0)
    /\ UNCHANGED chainVars
    /\ UNCHANGED auxVars

\* a block is connected: the pool drops its transactions and their conflicts
RemoveForBlock(vtx) ==
    /\ ~fDisconnecting
    /\ IsValidBlock(vtx, confirmed)
    /\ \E r \in { removeForBlock(Pool, vtx) } :
         /\ SetPool(r.pool)
         /\ lastOp' = [op |-> "removeForBlock", vtx |-> vtx, list |-> r.conflicts,
                       ret |-> 0, estimator |-> r.pool.estimator]
    /\ confirmed' = confirmed \cup SeqToSet(vtx)
    /\ UNCHANGED << vDisconnect, vHashUpdate, fDisconnecting >>
    /\ UNCHANGED auxVars

ExpireOp(time) ==
    /\ ~fDisconnecting
    /\ \E r \in { Expire(Pool, time) } :
         /\ SetPool(r.pool)
         /\ lastOp' = OpRecord("Expire", << >>, << >>, r.ret)
    /\ UNCHANGED chainVars
    /\ UNCHANGED auxVars

RemoveCoinbaseSpends(immature) ==
    /\ ~fDisconnecting
    /\ SetPool(removeCoinbaseSpends(Pool, immature))
    /\ lastOp' = OpRecord("removeCoinbaseSpends", << >>, << >>, 0)
    /\ UNCHANGED chainVars
    /\ UNCHANGED auxVars

Prioritise(hash, dPriorityDelta, nFeeDelta) ==
    /\ ~fDisconnecting
    /\ LET d == ApplyDeltas(Pool, hash, dPriorityDelta, nFeeDelta) IN
         d[1] <= MaxDelta /\ d[2] <= MaxDelta
    /\ SetPool(PrioritiseTransaction(Pool, hash, dPriorityDelta, nFeeDelta))
    /\ lastOp' = OpRecord("PrioritiseTransaction", << >>, << >>, 0)
    /\ UNCHANGED chainVars
    /\ UNCHANGED auxVars

\* the sets of entries a surplus trim passes over
SkipSets(S) == { k \in SUBSET S : Cardinality(k) <= MaxSkipped }

\* the periodic trim of the surplus
SurplusTrimOp(skip, multiplier, minRelayRate, usageToTrim) ==
    /\ ~fDisconnecting
    /\ \E r \in { SurplusTrim(Pool, skip, multiplier, minRelayRate, usageToTrim) } :
         /\ SetPool(r.pool)
         /\ lastOp' = OpRecord("SurplusTrim", << >>,
                               IF r.ret THEN SeqOfSet(r.stage) ELSE << >>, 0)
    /\ UNCHANGED chainVars
    /\ UNCHANGED auxVars

(***************************************************************************)
(* Admission under a size limit: StageTrimToSize stages what has to leave  *)
(* for the incoming transaction; when it succeeds the staged entries are   *)
(* removed and the transaction is added.                                   *)
(***************************************************************************)
TrimRecord(toadd, sizelimit, nFeesReserved, r) ==
    [op |-> "StageTrimToSize", vtx |-> << >>, list |-> << >>, ret |-> 0,
     toadd |-> toadd, sizelimit |-> sizelimit, nFeesReserved |-> nFeesReserved,
     fRet |-> r.ret, stage |-> r.stage, nFeesRemoved |-> r.nFeesRemoved]

StageTrim(skip, sizelimit, toadd, nFeesReserved) ==
    /\ ~fDisconnecting
    /\ CanAccept(toadd)
    /\ lastOp' = TrimRecord(toadd, sizelimit, nFeesReserved,
                            StageTrimToSize(Pool, skip, sizelimit, toadd, nFeesReserved, {}, 0))
    /\ UNCHANGED << mapTx, mapLinks, mapNextTx, totalTxSize, cachedInnerUsage, mapDeltas >>
    /\ UNCHANGED chainVars
    /\ UNCHANGED auxVars

AcceptAfterTrim(nTime) ==
    /\ ~fDisconnecting
    /\ lastOp.op = "StageTrimToSize"
    /\ lastOp.fRet
    /\ SetPool(addUnchecked(RemoveStaged(Pool, lastOp.stage), lastOp.toadd,
                            CTxMemPoolEntry(lastOp.toadd, nTime)))
    /\ lastOp' = OpRecord("RemoveStaged", << >>, SeqOfSet(lastOp.stage), 0)
    /\ UNCHANGED chainVars
    /\ UNCHANGED auxVars

(***************************************************************************)
(* Block disconnection: the tip's transactions are re-added in block order *)
(* (a transaction that is not accepted is removed with its descendants),   *)
(* then UpdateTransactionsFromBlock runs on the hashes that were re-added. *)
(***************************************************************************)
DisconnectTip(vtx) ==
    /\ ~fDisconnecting
    /\ IsTipBlock(vtx, confirmed)
    /\ confirmed' = confirmed \ SeqToSet(vtx)
    /\ vDisconnect' = vtx
    /\ vHashUpdate' = << >>
    /\ fDisconnecting' = TRUE
    /\ lastOp' = OpRecord("DisconnectTip", << >>, << >>, 0)
    /\ UNCHANGED << mapTx, mapLinks, mapNextTx, totalTxSize, cachedInnerUsage, mapDeltas >>
    /\ UNCHANGED auxVars

ResurrectAccept(nTime) ==
    /\ fDisconnecting
    /\ vDisconnect # << >>
    /\ CanAccept(Head(vDisconnect))
    /\ SetPool(addUnchecked(Pool, Head(vDisconnect), CTxMemPoolEntry(Head(vDisconnect), nTime)))
    /\ vHashUpdate' = Append(vHashUpdate, Head(vDisconnect))
    /\ vDisconnect' = Tail(vDisconnect)
    /\ lastOp' = OpRecord("addUnchecked", << >>, << >>, 0)
    /\ UNCHANGED << confirmed, fDisconnecting >>
    /\ UNCHANGED auxVars

ResurrectReject ==
    /\ fDisconnecting
    /\ vDisconnect # << >>
    /\ \E r \in { remove(Pool, Head(vDisconnect), << >>, TRUE) } :
         /\ SetPool(r.pool)
         /\ lastOp' = OpRecord("remove", << >>, r.removed, 0)
    /\ vDisconnect' = Tail(vDisconnect)
    /\ UNCHANGED << confirmed, vHashUpdate, fDisconnecting >>
    /\ UNCHANGED auxVars

UpdateFromBlock ==
    /\ fDisconnecting
    /\ vDisconnect = << >>
    /\ SetPool(UpdateTransactionsFromBlock(Pool, vHashUpdate))
    /\ lastOp' = OpRecord("UpdateTransactionsFromBlock", << >>, << >>, 0)
    /\ vHashUpdate' = << >>
    /\ fDisconnecting' = FALSE
    /\ UNCHANGED << confirmed, vDisconnect >>
    /\ UNCHANGED auxVars

Next ==
    \/ \E h \in ChainTxIds, t \in 1..MaxTime : AddUnchecked(h, t)
    \/ \E h \in ChainTxIds : Remove(h)
    \/ \E h \in ChainTxIds : RemoveConflicts(h)
    \/ \E vtx \in Blocks : RemoveForBlock(vtx)
    \/ \E t \in 0..(MaxTime + 1) : ExpireOp(t)
    \/ \E s \in SUBSET ExternalHashes : RemoveCoinbaseSpends(s)
    \/ \E skip \in SkipSets(DOMAIN mapTx), m \in Multipliers, rate \in MinRelayRates,
          u \in SurplusUsages : SurplusTrimOp(skip, m, rate, u)
    \/ \E vtx \in Blocks : DisconnectTip(vtx)
    \/ \E t \in 1..MaxTime : ResurrectAccept(t)
    \/ ResurrectReject
    \/ UpdateFromBlock

Spec == Init /\ [][Next]_vars

(***************************************************************************)
(* The same pool with prioritisation: deltas are recorded for the          *)
(* transactions of PrioritisedTxIds, all entries carry the same time.      *)
(***************************************************************************)
NextPrio ==
    \/ \E h \in PrioritisedTxIds : Prioritise(h, 1, 1)
    \/ \E h \in ChainTxIds : AddUnchecked(h, 1)
    \/ \E h \in ChainTxIds : Remove(h)
    \/ \E h \in ChainTxIds : RemoveConflicts(h)
    \/ \E vtx \in Blocks : RemoveForBlock(vtx)
    \/ \E t \in 1..2 : ExpireOp(t)
    \/ \E s \in SUBSET ExternalHashes : RemoveCoinbaseSpends(s)
    \/ \E skip \in SkipSets(DOMAIN mapTx), m \in Multipliers, rate \in MinRelayRates,
          u \in SurplusUsages : SurplusTrimOp(skip, m, rate, u)
    \/ \E vtx \in Blocks : DisconnectTip(vtx)
    \/ ResurrectAccept(1)
    \/ ResurrectReject
    \/ UpdateFromBlock

SpecPrio == Init /\ [][NextPrio]_vars

(***************************************************************************)
(* The pool under a size limit: transactions arrive, are admitted when     *)
(* there is room or when StageTrimToSize makes room.                       *)
(***************************************************************************)
NextTrim ==
    \/ \E h \in TxIds : AddUnchecked(h, 1)
    \/ \E skip \in SUBSET DOMAIN mapTx, sizelimit \in SizeLimits, toadd \in TxIds,
          nFeesReserved \in FeesReserved :
          StageTrim(skip, sizelimit, toadd, nFeesReserved)
    \/ AcceptAfterTrim(1)

SpecTrim == Init /\ [][NextTrim]_vars

(***************************************************************************)
(* Admission under the ancestor and descendant limits: before a            *)
(* transaction is added, CalculateMemPoolAncestors is asked whether it     *)
(* fits; the pool is left as it is and the answer is recorded.             *)
(***************************************************************************)
AncestorCountLimits == {2, 3, nNoLimit}
AncestorSizeLimits == {3, nNoLimit}
DescendantCountLimits == {2, nNoLimit}
DescendantSizeLimits == {3, nNoLimit}

Limits == [limitAncestorCount : AncestorCountLimits, limitAncestorSize : AncestorSizeLimits,
           limitDescendantCount : DescendantCountLimits,
           limitDescendantSize : DescendantSizeLimits]

AncestorsRecord(h, lim, r) ==
    [op |-> "CalculateMemPoolAncestors", vtx |-> << >>, list |-> << >>, ret |-> 0,
     hash |-> h, lim |-> lim, fRet |-> r.ret, setAncestors |-> r.setAncestors,
     errString |-> r.errString]

\* the limit check of admission, for a new transaction or for the next
\* transaction of a disconnected block
CheckLimits(h, lim) ==
    /\ CanAccept(h)
    /\ fDisconnecting => (vDisconnect # << >> /\ h = Head(vDisconnect))
    /\ lastOp' = AncestorsRecord(h, lim, CalculateMemPoolAncestors(Pool, h, lim))
    /\ UNCHANGED << mapTx, mapLinks, mapNextTx, totalTxSize, cachedInnerUsage, mapDeltas >>
    /\ UNCHANGED chainVars
    /\ UNCHANGED auxVars

NextLimits ==
    \/ \E h \in ChainTxIds : AddUnchecked(h, 1)
    \/ \E h \in ChainTxIds, lim \in Limits : CheckLimits(h, lim)
    \/ \E vtx \in Blocks : RemoveForBlock(vtx)
    \/ \E vtx \in Blocks : DisconnectTip(vtx)
    \/ ResurrectAccept(1)
    \/ ResurrectReject
    \/ UpdateFromBlock

SpecLimits == Init /\ [][NextLimits]_vars

(***************************************************************************)
(* The block assembler (miner.cpp).  It reads the pool under the pool's    *)
(* lock, so the pool does not change between CreateNewBlock's first step   *)
(* and the return of the template.  Sizes are the model's small sizes and  *)
(* the block limits are scaled with them.                                  *)
(***************************************************************************)
WITNESS_SCALE_FACTOR == 4

MAX_BLOCK_SIGOPS_COST == 8

MAX_CONSECUTIVE_FAILURES == 1000

\* the weight and the sigop cost counted for the coinbase before any package
CoinbaseReservedWeight == 4

CoinbaseReservedSigOps == 1

\* the weight within which a block counts as close to full
CloseToFullWeight == 4

\* the hash of the coinbase transaction of a template or block
CoinbaseTx == 9

BlockSubsidy == 50

\* the options an assembler is constructed with
BlockMaxWeights == {4, 12, 24, 100}

BlockMinFeeRates == {0, 1000, 100000}

\* the sets of pool transactions that are not final at the next height
NonFinalSets == {{}, {6}}

\* weight is at most WITNESS_SCALE_FACTOR times the size; transaction 3
\* carries witness data
GetTxWeight(h) == WITNESS_SCALE_FACTOR * TxOf(h).nTxSize - (IF h = 3 THEN 1 ELSE 0)

GetSigOpCost(h) == IF h \in {4, 5} THEN 2 ELSE 1

GetModifiedFee(p, h) ==
    p.mapTx[h].nFee + (IF h \in DOMAIN p.mapDeltas THEN p.mapDeltas[h][2] ELSE 0)

\* the in-pool ancestors of a pool entry, the entry excluded
MemPoolAncestors(p, h) == CalculateMemPoolAncestors(p, h, NoLimits).setAncestors

GetCountWithAncestors(p, h) == Cardinality(MemPoolAncestors(p, h)) + 1

GetSizeWithAncestors(p, h) ==
    LET A == MemPoolAncestors(p, h) \cup {h}
    IN  SumOver([a \in A |-> p.mapTx[a].nTxSize], A)

GetModFeesWithAncestors(p, h) ==
    LET A == MemPoolAncestors(p, h) \cup {h}
    IN  SumOver([a \in A |-> GetModifiedFee(p, a)], A)

GetSigOpCostWithAncestors(p, h) ==
    LET A == MemPoolAncestors(p, h) \cup {h}
    IN  SumOver([a \in A |-> GetSigOpCost(a)], A)

\* the entry of mapModifiedTx made from a pool entry
CTxMemPoolModifiedEntry(p, h) ==
    [iter |-> h,
     nSizeWithAncestors |-> GetSizeWithAncestors(p, h),
     nModFeesWithAncestors |-> GetModFeesWithAncestors(p, h),
     nSigOpCostWithAncestors |-> GetSigOpCostWithAncestors(p, h)]

\* a sorts before b: higher fee rate of the ancestor package, then lower hash
CompareModifiedEntry(a, b) ==
    LET f1 == a.nModFeesWithAncestors * b.nSizeWithAncestors
        f2 == b.nModFeesWithAncestors * a.nSizeWithAncestors
    IN  IF f1 = f2 THEN a.iter < b.iter ELSE f1 > f2

\* the ancestor_score index: the smaller of the entry's own fee rate and the
\* fee rate of its ancestor package, as the pair <<fee, size>>
AncestorScore(p, h) ==
    LET f1 == GetModifiedFee(p, h) * GetSizeWithAncestors(p, h)
        f2 == GetModFeesWithAncestors(p, h) * p.mapTx[h].nTxSize
    IN  IF f1 > f2 THEN << GetModFeesWithAncestors(p, h), GetSizeWithAncestors(p, h) >>
        ELSE << GetModifiedFee(p, h), p.mapTx[h].nTxSize >>

CompareTxMemPoolEntryByAncestorFee(p, ha, hb) ==
    LET a == AncestorScore(p, ha)
        b == AncestorScore(p, hb)
        f1 == a[1] * b[2]
        f2 == b[1] * a[2]
    IN  IF f1 = f2 THEN ha < hb ELSE f1 > f2

\* the entries of S in the order of mapTx's ancestor_score index
ByAncestorScore(p, S) ==
    [i \in 1..Cardinality(S) |->
        CHOOSE h \in S :
            Cardinality({ o \in S \ {h} :
                            CompareTxMemPoolEntryByAncestorFee(p, o, h) }) = i - 1]

CompareTxIterByAncestorCount(p, ha, hb) ==
    IF GetCountWithAncestors(p, ha) # GetCountWithAncestors(p, hb)
    THEN GetCountWithAncestors(p, ha) < GetCountWithAncestors(p, hb)
    ELSE ha < hb

\* fault: the package is sorted by descending ancestor count
SortForBlock_Descending(p, package) ==
    [i \in 1..Cardinality(package) |->
        CHOOSE h \in package :
            Cardinality({ o \in package \ {h} :
                            CompareTxIterByAncestorCount(p, h, o) }) = i - 1]

\* package in the order std::sort gives it
SortForBlock(p, package) ==
    [i \in 1..Cardinality(package) |->
        CHOOSE h \in package :
            Cardinality({ o \in package \ {h} :
                            CompareTxIterByAncestorCount(p, o, h) }) = i - 1]

onlyUnconfirmed(a, testSet) == testSet \ a.inBlock

\* fault: a package that fills the block exactly is let in
TestPackage_Inclusive(a, packageSize, packageSigOpsCost) ==
    IF a.nBlockWeight + WITNESS_SCALE_FACTOR * packageSize > a.nBlockMaxWeight THEN FALSE
    ELSE IF a.nBlockSigOpsCost + packageSigOpsCost > MAX_BLOCK_SIGOPS_COST THEN FALSE
    ELSE TRUE

TestPackage(a, packageSize, packageSigOpsCost) ==
    IF a.nBlockWeight + WITNESS_SCALE_FACTOR * packageSize >= a.nBlockMaxWeight THEN FALSE
    ELSE IF a.nBlockSigOpsCost + packageSigOpsCost >= MAX_BLOCK_SIGOPS_COST THEN FALSE
    ELSE TRUE

\* finality is the only transaction-level check of the model: every
\* transaction is without premature witness and no separate size limit is set
TestPackageTransactions(a, package) == package \cap a.nonFinal = {}

\* fault: the block's fee total takes the modified fee
AddToBlock_ModifiedFee(p, a, iter) ==
    [a EXCEPT !.vtx = Append(@, iter),
              !.vTxFees = Append(@, p.mapTx[iter].nFee),
              !.vTxSigOpsCost = Append(@, GetSigOpCost(iter)),
              !.nBlockWeight = @ + GetTxWeight(iter),
              !.nBlockTx = @ + 1,
              !.nBlockSigOpsCost = @ + GetSigOpCost(iter),
              !.nFees = @ + GetModifiedFee(p, iter),
              !.inBlock = @ \cup {iter}]

AddToBlock(p, a, iter) ==
    [a EXCEPT !.vtx = Append(@, iter),
              !.vTxFees = Append(@, p.mapTx[iter].nFee),
              !.vTxSigOpsCost = Append(@, GetSigOpCost(iter)),
              !.nBlockWeight = @ + GetTxWeight(iter),
              !.nBlockTx = @ + 1,
              !.nBlockSigOpsCost = @ + GetSigOpCost(iter),
              !.nFees = @ + p.mapTx[iter].nFee,
              !.inBlock = @ \cup {iter}]

\* every descendant of an added transaction that was not added itself gets
\* an entry in mapModifiedTx, made from its pool entry if it has none, and
\* loses the size, fee and sigops of each added transaction it descends from
UpdatePackagesForAdded(p, alreadyAdded, mapModifiedTx) ==
    LET descendantsOf == [it \in alreadyAdded |-> CalculateDescendants(p, it, {})]
        affected == (UNION { descendantsOf[it] : it \in alreadyAdded }) \ alreadyAdded
    IN  [desc \in DOMAIN mapModifiedTx \cup affected |->
            IF desc \notin affected THEN mapModifiedTx[desc]
            ELSE LET its == { it \in alreadyAdded : desc \in descendantsOf[it] } IN
                 [(IF desc \in DOMAIN mapModifiedTx THEN mapModifiedTx[desc]
                   ELSE CTxMemPoolModifiedEntry(p, desc)) EXCEPT
                    !.nSizeWithAncestors =
                        @ - SumOver([it \in its |-> p.mapTx[it].nTxSize], its),
                    !.nModFeesWithAncestors =
                        @ - SumOver([it \in its |-> GetModifiedFee(p, it)], its),
                    !.nSigOpCostWithAncestors =
                        @ - SumOver([it \in its |-> GetSigOpCost(it)], its)]]

SkipMapTxEntry(a, it) ==
    it \in DOMAIN a.mapModifiedTx \/ it \in a.inBlock \/ it \in a.failedTx

\* the top of mapModifiedTx in its ancestor_score order
BestModified(m) ==
    CHOOSE h \in DOMAIN m : \A o \in DOMAIN m \ {h} : CompareModifiedEntry(m[h], m[o])

\* lines 408-445 of addPackageTxs: the entry to evaluate, from mapTx or from
\* mapModifiedTx, the cursor after the choice and the package values
SelectPackage(p, a) ==
    LET m == a.mapModifiedTx
        atEnd == a.mi > Len(a.order)
        fUsingModified ==
            IF atEnd THEN TRUE
            ELSE /\ DOMAIN m # {}
                 /\ CompareModifiedEntry(m[BestModified(m)],
                                         CTxMemPoolModifiedEntry(p, a.order[a.mi]))
        iter == IF fUsingModified THEN BestModified(m) ELSE a.order[a.mi]
        view == IF fUsingModified THEN m[iter] ELSE CTxMemPoolModifiedEntry(p, iter)
    IN  [iter |-> iter, fUsingModified |-> fUsingModified,
         mi |-> IF fUsingModified THEN a.mi ELSE a.mi + 1,
         packageSize |-> view.nSizeWithAncestors,
         packageFees |-> view.nModFeesWithAncestors,
         packageSigOpsCost |-> view.nSigOpCostWithAncestors]

\* what the assembler records of one pass of the loop
StepRecord(kind, s, package) ==
    [kind |-> kind, iter |-> s.iter, fUsingModified |-> s.fUsingModified,
     packageSize |-> s.packageSize, packageFees |-> s.packageFees,
     packageSigOpsCost |-> s.packageSigOpsCost, package |-> package]

NoStep == [kind |-> "none"]

\* a failed entry of mapModifiedTx is erased and remembered
EraseFailed(a, s) ==
    IF s.fUsingModified
    THEN [a EXCEPT !.mapModifiedTx = Erase(@, {s.iter}), !.failedTx = @ \cup {s.iter}]
    ELSE a

poolVars == << mapTx, mapLinks, mapNextTx, totalTxSize, cachedInnerUsage, mapDeltas >>

AssemblerStep(a) ==
    /\ assembler' = a
    /\ UNCHANGED << poolVars, chainVars, lastOp, partialBlock, mainSignals, threads >>

\* CreateNewBlock up to the call of addPackageTxs
CreateNewBlock(nBlockMaxWeight, blockMinFeeRate, nonFinal) ==
    /\ assembler.phase = "idle"
    /\ ~fDisconnecting
    /\ AssemblerStep(
         [phase |-> "packages",
          nBlockMaxWeight |-> nBlockMaxWeight, blockMinFeeRate |-> blockMinFeeRate,
          nonFinal |-> nonFinal,
          order |-> ByAncestorScore(Pool, DOMAIN mapTx), mi |-> 1,
          mapModifiedTx |-> EmptyMap, failedTx |-> {},
          nConsecutiveFailed |-> 0, nPackagesSelected |-> 0,
          vtx |-> << -1 >>, vTxFees |-> << -1 >>, vTxSigOpsCost |-> << -1 >>,
          nBlockWeight |-> CoinbaseReservedWeight,
          nBlockSigOpsCost |-> CoinbaseReservedSigOps,
          nBlockTx |-> 0, nFees |-> 0, inBlock |-> {},
          coinbaseValue |-> 0, last |-> NoStep])

InPackageLoop ==
    /\ assembler.phase = "packages"
    /\ (assembler.mi <= Len(assembler.order) \/ DOMAIN assembler.mapModifiedTx # {})

\* the loop condition fails: addPackageTxs returns
PackagesDone ==
    /\ assembler.phase = "packages"
    /\ ~(assembler.mi <= Len(assembler.order) \/ DOMAIN assembler.mapModifiedTx # {})
    /\ AssemblerStep([assembler EXCEPT !.phase = "coinbase", !.last = NoStep])

MustSkip ==
    /\ assembler.mi <= Len(assembler.order)
    /\ SkipMapTxEntry(assembler, assembler.order[assembler.mi])

\* lines 402-406
SkipEntry ==
    /\ InPackageLoop
    /\ MustSkip
    /\ AssemblerStep([assembler EXCEPT !.mi = @ + 1, !.last = NoStep])

\* fault: no package is below the minimum fee rate
BelowMinFee_Never(s) == FALSE

BelowMinFee(s) == s.packageFees < GetFee(assembler.blockMinFeeRate, s.packageSize)

\* lines 447-450
PackageBelowMinFee ==
    /\ InPackageLoop
    /\ ~MustSkip
    /\ \E s \in {SelectPackage(Pool, assembler)} :
         /\ BelowMinFee(s)
         /\ AssemblerStep([assembler EXCEPT !.phase = "coinbase", !.mi = s.mi,
                                            !.last = StepRecord("return", s, {})])

\* lines 452-469
PackageFailsLimits ==
    /\ InPackageLoop
    /\ ~MustSkip
    /\ \E s \in {SelectPackage(Pool, assembler)} :
         /\ ~BelowMinFee(s)
         /\ ~TestPackage(assembler, s.packageSize, s.packageSigOpsCost)
         /\ LET a1 == EraseFailed([assembler EXCEPT !.mi = s.mi], s)
                n == assembler.nConsecutiveFailed + 1
                giveUp == /\ n > MAX_CONSECUTIVE_FAILURES
                          /\ assembler.nBlockWeight >
                                assembler.nBlockMaxWeight - CloseToFullWeight
            IN  AssemblerStep([a1 EXCEPT !.nConsecutiveFailed = n,
                                         !.phase = IF giveUp THEN "coinbase" ELSE @,
                                         !.last = StepRecord("failed", s, {})])

\* the entry with its ancestors that are not yet in the block (lines 471-477)
PackageOf(s) == onlyUnconfirmed(assembler, MemPoolAncestors(Pool, s.iter)) \cup {s.iter}

\* lines 479-486
PackageFailsTxChecks ==
    /\ InPackageLoop
    /\ ~MustSkip
    /\ \E s \in {SelectPackage(Pool, assembler)} :
         /\ ~BelowMinFee(s)
         /\ TestPackage(assembler, s.packageSize, s.packageSigOpsCost)
         /\ ~TestPackageTransactions(assembler, PackageOf(s))
         /\ AssemblerStep([EraseFailed([assembler EXCEPT !.mi = s.mi], s)
                              EXCEPT !.last = StepRecord("rejected", s, PackageOf(s))])

\* lines 488-504
PackageAdded ==
    /\ InPackageLoop
    /\ ~MustSkip
    /\ \E s \in {SelectPackage(Pool, assembler)} :
         /\ ~BelowMinFee(s)
         /\ TestPackage(assembler, s.packageSize, s.packageSigOpsCost)
         /\ TestPackageTransactions(assembler, PackageOf(s))
         /\ \E ancestors \in {PackageOf(s)} :
            LET sortedEntries == SortForBlock(Pool, ancestors)
                a1 == FoldSeq(LAMBDA a, it :
                                  [AddToBlock(Pool, a, it) EXCEPT
                                      !.mapModifiedTx = Erase(@, {it})],
                              [assembler EXCEPT !.mi = s.mi, !.nConsecutiveFailed = 0],
                              sortedEntries)
            IN  AssemblerStep([a1 EXCEPT
                    !.nPackagesSelected = @ + 1,
                    !.mapModifiedTx = UpdatePackagesForAdded(Pool, ancestors, @),
                    !.last = StepRecord("added", s, ancestors)])

CoinbaseLegacySigOps == 0

\* CreateNewBlock after addPackageTxs: the coinbase and the first elements
\* of the fee and sigop lists (lines 172-192)
FinishBlock ==
    /\ assembler.phase = "coinbase"
    /\ AssemblerStep([assembler EXCEPT
          !.phase = "template",
          !.coinbaseValue = assembler.nFees + BlockSubsidy,
          !.vtx[1] = CoinbaseTx,
          !.vTxFees[1] = -assembler.nFees,
          !.vTxSigOpsCost[1] = WITNESS_SCALE_FACTOR * CoinbaseLegacySigOps])

\* the template is handed to the caller
ReleaseTemplate ==
    /\ assembler.phase = "template"
    /\ AssemblerStep(NoAssembler)

\* the pool is operated on only while no template is being assembled
AssemblerIdle == assembler.phase = "idle"

NextMiner ==
    \/ \E h \in TxIds : AssemblerIdle /\ AddUnchecked(h, 1)
    \/ \E h \in PrioritisedTxIds : AssemblerIdle /\ Prioritise(h, 1, 1)
    \/ \E w \in BlockMaxWeights, r \in BlockMinFeeRates, nf \in NonFinalSets :
          CreateNewBlock(w, r, nf)
    \/ SkipEntry
    \/ PackageBelowMinFee
    \/ PackageFailsLimits
    \/ PackageFailsTxChecks
    \/ PackageAdded
    \/ PackagesDone
    \/ FinishBlock
    \/ ReleaseTemplate

SpecMiner == Init /\ [][NextMiner]_vars

(***************************************************************************)
(* Compact blocks (blockencodings.cpp).  A block is a header and a list    *)
(* of transactions, the coinbase first; the header commits to the list by  *)
(* its merkle root.  A transaction stands for its hash.                    *)
(***************************************************************************)
READ_STATUS_OK == "READ_STATUS_OK"

READ_STATUS_INVALID == "READ_STATUS_INVALID"

READ_STATUS_FAILED == "READ_STATUS_FAILED"

\* a null CTransaction, an empty shared_ptr
NullTx == 0

\* the nonces GetRand can return
Nonces == 0..3

\* short ids are the low bits of the SipHash value (48 bits in the code)
ShortIdSpace == 8

\* the most short ids InitData lets one bucket of its map hold
MaxBucketSize == 12

\* MAX_BLOCK_SIZE / ::GetSerializeSize(CTransaction()): no block has more transactions
MaxCompactTxCount == 10

UINT16_MAX == 65535

\* the pool holds at most MaxPoolTxs transactions when a compact block arrives
MaxPoolTxs == 4

\* the merkle root: the hashes of the list, in order, in one number
RECURSIVE BlockMerkleRoot(_)
BlockMerkleRoot(vtx) ==
    IF vtx = << >> THEN 0
    ELSE BlockMerkleRoot(SubSeq(vtx, 1, Len(vtx) - 1)) * 10 + vtx[Len(vtx)]

NullHeader == [hashMerkleRoot |-> 0, nBits |-> 0]

CBlock(vtx) == [header |-> [hashMerkleRoot |-> BlockMerkleRoot(vtx), nBits |-> 1],
                vtx |-> vtx]

\* CheckBlock: the merkle root first (a mismatch may be a corrupted
\* transaction list), then the rules on the list itself
CheckBlock(block) ==
    IF BlockMerkleRoot(block.vtx) # block.header.hashMerkleRoot THEN "CorruptionPossible"
    ELSE IF \/ block.vtx = << >>
            \/ block.vtx[1] # CoinbaseTx
            \/ \E i \in 2..Len(block.vtx) : block.vtx[i] = CoinbaseTx
         THEN "Invalid"
         ELSE "Valid"

\* the SipHash keys, taken from the hash of the header and the nonce
FillShortTxIDSelector(header, nonce) ==
    [shorttxidk0 |-> (header.hashMerkleRoot + nonce) % 4, shorttxidk1 |-> nonce]

SipHashUint256(k0, k1, txhash) == (k0 + 1) * txhash + k1

GetShortID(header, nonce, txhash) ==
    LET k == FillShortTxIDSelector(header, nonce)
    IN  SipHashUint256(k.shorttxidk0, k.shorttxidk1, txhash) % ShortIdSpace

\* the constructor: the coinbase prefilled, a short id for every other transaction
CBlockHeaderAndShortTxIDs(block, nonce) ==
    [header |-> block.header,
     nonce |-> nonce,
     shorttxids |-> [i \in 1..(Len(block.vtx) - 1) |->
                        GetShortID(block.header, nonce, block.vtx[i + 1])],
     prefilledtxn |-> << [index |-> 0, tx |-> block.vtx[1]] >>]

BlockTxCount(cmpctblock) == Len(cmpctblock.shorttxids) + Len(cmpctblock.prefilledtxn)

\* fault: the index of a prefilled transaction is taken as its slot, not as the
\* number of slots skipped since the previous one
PlacePrefilled_AbsoluteIndex(cmpctblock) ==
    FoldSeq(LAMBDA acc, i :
              IF acc.ret # READ_STATUS_OK THEN acc
              ELSE LET pre == cmpctblock.prefilledtxn[i]
                       lastprefilledindex == pre.index
                   IN  IF \/ pre.tx = NullTx
                          \/ lastprefilledindex > UINT16_MAX
                          \/ lastprefilledindex > Len(cmpctblock.shorttxids) + (i - 1)
                       THEN [acc EXCEPT !.ret = READ_STATUS_INVALID]
                       ELSE [acc EXCEPT !.lastprefilledindex = lastprefilledindex,
                                        !.txn_available[lastprefilledindex + 1] = pre.tx],
            [ret |-> READ_STATUS_OK, lastprefilledindex |-> -1,
             txn_available |-> [j \in 1..BlockTxCount(cmpctblock) |-> NullTx]],
            [i \in 1..Len(cmpctblock.prefilledtxn) |-> i])

\* InitData, lines 53-68: the prefilled transactions are put in their slots
\* (slot j of the model is txn_available[j - 1] of the code)
PlacePrefilled(cmpctblock) ==
    FoldSeq(LAMBDA acc, i :
              IF acc.ret # READ_STATUS_OK THEN acc
              ELSE LET pre == cmpctblock.prefilledtxn[i]
                       lastprefilledindex == acc.lastprefilledindex + pre.index + 1
                   IN  IF \/ pre.tx = NullTx
                          \/ lastprefilledindex > UINT16_MAX
                          \/ lastprefilledindex > Len(cmpctblock.shorttxids) + (i - 1)
                       THEN [acc EXCEPT !.ret = READ_STATUS_INVALID]
                       ELSE [acc EXCEPT !.lastprefilledindex = lastprefilledindex,
                                        !.txn_available[lastprefilledindex + 1] = pre.tx],
            [ret |-> READ_STATUS_OK, lastprefilledindex |-> -1,
             txn_available |-> [j \in 1..BlockTxCount(cmpctblock) |-> NullTx]],
            [i \in 1..Len(cmpctblock.prefilledtxn) |-> i])

\* the slot of the i-th short id without the skip over the prefilled slots
ShortIdSlot_NoOffset(txn_available, i) == i

\* lines 77-78: the while loop of short id i (counted from 0, as the code
\* does) entered with index_offset; read holds the indexes of txn_available
\* the loop condition reads, the last of them the one that ends the loop.  An
\* index at or past the end of the vector ends the walk.
RECURSIVE SkipPrefilled(_, _, _)
SkipPrefilled(txn_available, i, index_offset) ==
    IF i + index_offset >= Len(txn_available)
    THEN [index_offset |-> index_offset, read |-> { i + index_offset }]
    ELSE IF txn_available[i + index_offset + 1] # NullTx
         THEN LET r == SkipPrefilled(txn_available, i, index_offset + 1)
              IN  [r EXCEPT !.read = @ \cup { i + index_offset }]
         ELSE [index_offset |-> index_offset, read |-> { i + index_offset }]

\* the walk of the short ids that starts the skip of every short id at the
\* slot with its own number
ShortIdSlots_OffsetReset(txn_available, n) ==
    FoldSeq(LAMBDA acc, i :
              LET r == SkipPrefilled(txn_available, i - 1, 0)
              IN  [index_offset |-> r.index_offset,
                   slots |-> Append(acc.slots, (i - 1) + r.index_offset + 1),
                   touched |-> acc.touched \cup r.read],
            [index_offset |-> 0, slots |-> << >>, touched |-> {}],
            [i \in 1..n |-> i])

\* lines 75-79: the walk of the first n short ids; slots[i] is the slot the
\* i-th short id is given (slot j of the model is txn_available[j - 1] of the
\* code), touched the indexes of txn_available read by the skip loop
ShortIdSlots(txn_available, n) ==
    FoldSeq(LAMBDA acc, i :
              LET r == SkipPrefilled(txn_available, i - 1, acc.index_offset)
              IN  [index_offset |-> r.index_offset,
                   slots |-> Append(acc.slots, (i - 1) + r.index_offset + 1),
                   touched |-> acc.touched \cup r.read],
            [index_offset |-> 0, slots |-> << >>, touched |-> {}],
            [i \in 1..n |-> i])

\* lines 76-79: the slot of the i-th short id
ShortIdSlot(txn_available, i) == ShortIdSlots(txn_available, i).slots[i]

\* lines 75-80: short id -> slot; a short id met again takes the later slot
ShortIdMap(cmpctblock, txn_available) ==
    LET ids == cmpctblock.shorttxids
    IN  [s \in { ids[i] : i \in DOMAIN ids } |->
            ShortIdSlot(txn_available,
                        CHOOSE i \in DOMAIN ids :
                            ids[i] = s /\ \A j \in DOMAIN ids : ids[j] = s => j <= i)]

\* lines 85-86: some bucket of the map holds more than MaxBucketSize short ids
\* (std::unordered_map: the bucket of a key is its hash modulo the bucket count)
BucketSizeExceeded(cmpctblock) ==
    LET ids == { cmpctblock.shorttxids[i] : i \in DOMAIN cmpctblock.shorttxids }
        buckets == IF Len(cmpctblock.shorttxids) = 0 THEN 1 ELSE Len(cmpctblock.shorttxids)
    IN  \E b \in 0..(buckets - 1) :
            Cardinality({ s \in ids : s % buckets = b }) > MaxBucketSize

\* the reconstructor that keeps the first of two pool transactions with one short id
ScanOne_KeepFirst(st, txhash, cmpctblock, shorttxids) ==
    LET shortid == GetShortID(cmpctblock.header, cmpctblock.nonce, txhash)
        st1 == IF shortid \in DOMAIN shorttxids /\ ~st.have_txn[shorttxids[shortid]]
               THEN [st EXCEPT !.txn_available[shorttxids[shortid]] = txhash,
                               !.have_txn[shorttxids[shortid]] = TRUE,
                               !.mempool_count = @ + 1]
               ELSE st
    IN  [st1 EXCEPT !.done = (st1.mempool_count = Cardinality(DOMAIN shorttxids))]

\* the scan that counts down at every further pool transaction with a short id
\* already met, whether the slot still holds a transaction or not
ScanOne_AlwaysDecrement(st, txhash, cmpctblock, shorttxids) ==
    LET shortid == GetShortID(cmpctblock.header, cmpctblock.nonce, txhash)
        st1 == IF shortid \notin DOMAIN shorttxids THEN st
               ELSE IF ~st.have_txn[shorttxids[shortid]]
                    THEN [st EXCEPT !.txn_available[shorttxids[shortid]] = txhash,
                                    !.have_txn[shorttxids[shortid]] = TRUE,
                                    !.mempool_count = @ + 1]
                    ELSE [st EXCEPT !.txn_available[shorttxids[shortid]] = NullTx,
                                    !.mempool_count = @ - 1]
    IN  [st1 EXCEPT !.done = (st1.mempool_count = Cardinality(DOMAIN shorttxids))]

\* lines 97-121: one pool transaction of the scan
ScanOne(st, txhash, cmpctblock, shorttxids) ==
    LET shortid == GetShortID(cmpctblock.header, cmpctblock.nonce, txhash)
        st1 == IF shortid \notin DOMAIN shorttxids THEN st
               ELSE IF ~st.have_txn[shorttxids[shortid]]
                    THEN [st EXCEPT !.txn_available[shorttxids[shortid]] = txhash,
                                    !.have_txn[shorttxids[shortid]] = TRUE,
                                    !.mempool_count = @ + 1]
                    ELSE IF st.txn_available[shorttxids[shortid]] # NullTx
                         THEN [st EXCEPT !.txn_available[shorttxids[shortid]] = NullTx,
                                         !.mempool_count = @ - 1]
                         ELSE st
    IN  [st1 EXCEPT !.done = (st1.mempool_count = Cardinality(DOMAIN shorttxids))]

\* lines 96-122: the scan of pool->vTxHashes, left once every short id has a
\* pool transaction
RECURSIVE ScanMempool(_, _, _, _)
ScanMempool(vTxHashes, st, cmpctblock, shorttxids) ==
    IF vTxHashes = << >> \/ st.done THEN st
    ELSE CHOOSE r \in { ScanMempool(Tail(vTxHashes), s, cmpctblock, shorttxids) :
                           s \in { ScanOne(st, Head(vTxHashes), cmpctblock, shorttxids) } } :
             TRUE

InitDataResult(ret, txn_available, prefilled_count, mempool_count) ==
    [ret |-> ret, txn_available |-> txn_available,
     prefilled_count |-> prefilled_count, mempool_count |-> mempool_count]

\* InitData without the comparison of the map's size with the number of short
\* ids of the message
InitData_NoCollisionCheck(cmpctblock, vTxHashes) ==
    IF \/ cmpctblock.header = NullHeader
       \/ (cmpctblock.shorttxids = << >> /\ cmpctblock.prefilledtxn = << >>)
       \/ BlockTxCount(cmpctblock) > MaxCompactTxCount
    THEN InitDataResult(READ_STATUS_INVALID, << >>, 0, 0)
    ELSE LET pre == PlacePrefilled(cmpctblock)
             shorttxids == ShortIdMap(cmpctblock, pre.txn_available)
             scanned == ScanMempool(vTxHashes,
                                    [txn_available |-> pre.txn_available,
                                     have_txn |-> [j \in DOMAIN pre.txn_available |-> FALSE],
                                     mempool_count |-> 0, done |-> FALSE],
                                    cmpctblock, shorttxids)
         IN  IF pre.ret # READ_STATUS_OK
             THEN InitDataResult(READ_STATUS_INVALID, pre.txn_available, 0, 0)
             ELSE IF BucketSizeExceeded(cmpctblock)
                  THEN InitDataResult(READ_STATUS_FAILED, pre.txn_available,
                                      Len(cmpctblock.prefilledtxn), 0)
                  ELSE InitDataResult(READ_STATUS_OK, scanned.txn_available,
                                      Len(cmpctblock.prefilledtxn), scanned.mempool_count)

\* PartiallyDownloadedBlock::InitData over the pool's vTxHashes
InitData(cmpctblock, vTxHashes) ==
    IF \/ cmpctblock.header = NullHeader
       \/ (cmpctblock.shorttxids = << >> /\ cmpctblock.prefilledtxn = << >>)
       \/ BlockTxCount(cmpctblock) > MaxCompactTxCount
    THEN InitDataResult(READ_STATUS_INVALID, << >>, 0, 0)
    ELSE LET pre == PlacePrefilled(cmpctblock)
             shorttxids == ShortIdMap(cmpctblock, pre.txn_available)
             scanned == ScanMempool(vTxHashes,
                                    [txn_available |-> pre.txn_available,
                                     have_txn |-> [j \in DOMAIN pre.txn_available |-> FALSE],
                                     mempool_count |-> 0, done |-> FALSE],
                                    cmpctblock, shorttxids)
         IN  IF pre.ret # READ_STATUS_OK
             THEN InitDataResult(READ_STATUS_INVALID, pre.txn_available, 0, 0)
             ELSE IF \/ BucketSizeExceeded(cmpctblock)
                     \/ Cardinality(DOMAIN shorttxids) # Len(cmpctblock.shorttxids)
                  THEN InitDataResult(READ_STATUS_FAILED, pre.txn_available,
                                      Len(cmpctblock.prefilledtxn), 0)
                  ELSE InitDataResult(READ_STATUS_OK, scanned.txn_available,
                                      Len(cmpctblock.prefilledtxn), scanned.mempool_count)

\* PartiallyDownloadedBlock::IsTxAvailable, lines 129-133; index counts from 0
IsTxAvailable(txn_available, index) == txn_available[index + 1] # NullTx

\* FillBlock, lines 141-148: every slot takes its available transaction or
\* the next missing one
FillSlots(txn_available, vtx_missing) ==
    FoldSeq(LAMBDA acc, i :
              IF acc.ret # READ_STATUS_OK THEN acc
              ELSE IF txn_available[i] = NullTx
                   THEN IF Len(vtx_missing) <= acc.tx_missing_offset
                        THEN [acc EXCEPT !.ret = READ_STATUS_INVALID]
                        ELSE [acc EXCEPT !.vtx[i] = vtx_missing[acc.tx_missing_offset + 1],
                                         !.tx_missing_offset = @ + 1]
                   ELSE [acc EXCEPT !.vtx[i] = txn_available[i]],
            [ret |-> READ_STATUS_OK, tx_missing_offset |-> 0,
             vtx |-> [j \in DOMAIN txn_available |-> NullTx]],
            [i \in DOMAIN txn_available |-> i])

\* FillBlock that does not compare the number of missing transactions used
\* with the number given
FillBlock_NoCountCheck(header, txn_available, vtx_missing) ==
    LET filled == FillSlots(txn_available, vtx_missing)
        checked == CheckBlock([header |-> header, vtx |-> filled.vtx])
    IN  [vtx |-> filled.vtx,
         ret |-> IF filled.ret # READ_STATUS_OK THEN READ_STATUS_INVALID
                 ELSE IF checked = "CorruptionPossible" THEN READ_STATUS_FAILED
                 ELSE IF checked = "Invalid" THEN READ_STATUS_INVALID
                 ELSE READ_STATUS_OK]

\* PartiallyDownloadedBlock::FillBlock: the status and block.vtx
FillBlock(header, txn_available, vtx_missing) ==
    LET filled == FillSlots(txn_available, vtx_missing)
        checked == CheckBlock([header |-> header, vtx |-> filled.vtx])
    IN  [vtx |-> filled.vtx,
         ret |-> IF filled.ret # READ_STATUS_OK THEN READ_STATUS_INVALID
                 ELSE IF Len(vtx_missing) # filled.tx_missing_offset THEN READ_STATUS_INVALID
                 ELSE IF checked = "CorruptionPossible" THEN READ_STATUS_FAILED
                 ELSE IF checked = "Invalid" THEN READ_STATUS_INVALID
                 ELSE READ_STATUS_OK]

\* the blocks announced: a coinbase and up to MaxBlockTxs transactions
CompactBlocks == { << CoinbaseTx >> \o vtx : vtx \in Blocks \cup { << >> } }

\* the orders pool->vTxHashes can hold the pool's transactions in
RECURSIVE Orders(_)
Orders(S) ==
    IF S = {} THEN { << >> }
    ELSE UNION { { << x >> \o s : s \in Orders(S \ {x}) } : x \in S }

\* the answers to a request for the missing transactions: up to MaxMissing
\* transactions of the block, right or wrong
MaxMissing == 2

MissingLists(vtx) ==
    UNION { [1..n -> { vtx[i] : i \in DOMAIN vtx }] : n \in 0..MaxMissing }

ReconstructorStep(pb) ==
    /\ partialBlock' = pb
    /\ UNCHANGED << poolVars, chainVars, lastOp, assembler, mainSignals, threads >>

ReconstructorIdle == partialBlock.phase = "idle"

\* a peer builds the compact block of a block and sends it
AnnounceBlock(vtx, nonce) ==
    /\ partialBlock.phase = "idle"
    /\ ReconstructorStep([phase |-> "cmpctblock",
                          block |-> CBlock(vtx),
                          cmpctblock |-> CBlockHeaderAndShortTxIDs(CBlock(vtx), nonce)])

\* InitData on the message received; vTxHashes is kept as the snapshot of the
\* pool the call scanned
InitDataOp(vTxHashes) ==
    /\ partialBlock.phase = "cmpctblock"
    /\ \E r \in { InitData(partialBlock.cmpctblock, vTxHashes) } :
         ReconstructorStep([phase |-> "init",
                            vTxHashes |-> vTxHashes,
                            block |-> partialBlock.block,
                            cmpctblock |-> partialBlock.cmpctblock,
                            header |-> partialBlock.cmpctblock.header,
                            ret |-> r.ret,
                            txn_available |-> r.txn_available,
                            prefilled_count |-> r.prefilled_count,
                            mempool_count |-> r.mempool_count])

\* FillBlock with the transactions a peer sent for the missing ones
FillBlockOp ==
    /\ partialBlock.phase = "init"
    /\ partialBlock.ret = READ_STATUS_OK
    /\ \E vtx_missing \in MissingLists(partialBlock.block.vtx) :
       \E r \in { FillBlock(partialBlock.header, partialBlock.txn_available, vtx_missing) } :
         ReconstructorStep([phase |-> "filled",
                            block |-> partialBlock.block,
                            cmpctblock |-> partialBlock.cmpctblock,
                            header |-> partialBlock.header,
                            txn_available |-> partialBlock.txn_available,
                            prefilled_count |-> partialBlock.prefilled_count,
                            mempool_count |-> partialBlock.mempool_count,
                            vtx_missing |-> vtx_missing,
                            ret |-> r.ret,
                            vtx |-> r.vtx])

\* the PartiallyDownloadedBlock is dropped
DropPartialBlock ==
    /\ partialBlock.phase \in {"init", "filled"}
    /\ ReconstructorStep(NoPartialBlock)

NextCompact ==
    \/ \E h \in TxIds : /\ ReconstructorIdle
                        /\ Cardinality(DOMAIN mapTx) < MaxPoolTxs
                        /\ AddUnchecked(h, 1)
    \/ \E vtx \in CompactBlocks, nonce \in Nonces : AnnounceBlock(vtx, nonce)
    \/ \E vTxHashes \in Orders(DOMAIN mapTx) : InitDataOp(vTxHashes)
    \/ FillBlockOp
    \/ DropPartialBlock

SpecCompact == Init /\ [][NextCompact]_vars

(***************************************************************************)
(* A transaction is added and at once removed again, with its descendants. *)
(* The pools it is tried on are those that additions, prioritisation and   *)
(* block connections and disconnections produce.                           *)
(***************************************************************************)
AddThenRemove(h, nTime) ==
    /\ CanAccept(h)
    /\ fDisconnecting => (vDisconnect # << >> /\ h = Head(vDisconnect))
    /\ LET added == addUnchecked(Pool, h, CTxMemPoolEntry(h, nTime))
           r == remove(added, h, << >>, TRUE)
       IN  /\ SetPool(r.pool)
           /\ lastOp' = OpRecord("addUnchecked;remove", << h >>, r.removed, 0)
    /\ UNCHANGED chainVars
    /\ UNCHANGED auxVars

NextRoundTrip ==
    \/ \E h \in ChainTxIds : AddUnchecked(h, 1)
    \/ \E h \in ChainTxIds : AddThenRemove(h, 1)
    \/ \E h \in PrioritisedTxIds : Prioritise(h, 1, 1)
    \/ \E vtx \in Blocks : RemoveForBlock(vtx)
    \/ \E vtx \in Blocks : DisconnectTip(vtx)
    \/ ResurrectAccept(1)
    \/ ResurrectReject
    \/ UpdateFromBlock

SpecRoundTrip == Init /\ [][NextRoundTrip]_vars

(***************************************************************************)
(* The ancestors of an entry, as addUnchecked(hash, entry) and             *)
(* UpdateForRemoveFromMempool ask for them: all limits at nNoLimit, an     *)
(* empty output set, for a transaction that is about to be added or for a  *)
(* pool entry.  While a disconnected block is being re-added, the pool     *)
(* entries asked about are the ones remove(tx, removed, true) stages for   *)
(* the block's next transaction.                                           *)
(***************************************************************************)
AncestorsOf(h) ==
    /\ \/ CanAccept(h) /\ (fDisconnecting => (vDisconnect # << >> /\ h = Head(vDisconnect)))
       \/ h \in DOMAIN mapTx /\ ~fDisconnecting
       \/ /\ h \in DOMAIN mapTx
          /\ fDisconnecting
          /\ vDisconnect # << >>
          /\ h \in SeqToSet(remove(Pool, Head(vDisconnect), << >>, TRUE).removed)
    /\ lastOp' = [AncestorsRecord(h, NoLimits, CalculateMemPoolAncestors(Pool, h, NoLimits))
                    EXCEPT !.op = "CalculateMemPoolAncestors(nNoLimit)"]
    /\ UNCHANGED << mapTx, mapLinks, mapNextTx, totalTxSize, cachedInnerUsage, mapDeltas >>
    /\ UNCHANGED chainVars
    /\ UNCHANGED auxVars

NextAncestors ==
    \/ \E h \in ChainTxIds : AddUnchecked(h, 1)
    \/ \E h \in ChainTxIds : AncestorsOf(h)
    \/ \E vtx \in Blocks : RemoveForBlock(vtx)
    \/ \E vtx \in Blocks : DisconnectTip(vtx)
    \/ ResurrectAccept(1)
    \/ ResurrectReject
    \/ UpdateFromBlock

SpecAncestors == Init /\ [][NextAncestors]_vars

(***************************************************************************)
(* Admission under fixed descendant limits: a transaction, new or of a     *)
(* disconnected block, is added only when CalculateMemPoolAncestors        *)
(* returns true for AdmissionLimits.                                       *)
(***************************************************************************)
\* the limits are small enough for the model's transactions to reach them
AdmissionDescendantCount == 3

AdmissionDescendantSize == 4

AdmissionLimits == [limitAncestorCount |-> nNoLimit, limitAncestorSize |-> nNoLimit,
                    limitDescendantCount |-> AdmissionDescendantCount,
                    limitDescendantSize |-> AdmissionDescendantSize]

AcceptWithLimits(h, nTime) ==
    /\ ~fDisconnecting
    /\ CanAccept(h)
    /\ CalculateMemPoolAncestors(Pool, h, AdmissionLimits).ret
    /\ SetPool(addUnchecked(Pool, h, CTxMemPoolEntry(h, nTime)))
    /\ lastOp' = OpRecord("addUnchecked", << h >>, << >>, 0)
    /\ UNCHANGED chainVars
    /\ UNCHANGED auxVars

ResurrectWithLimits(nTime) ==
    /\ fDisconnecting
    /\ vDisconnect # << >>
    /\ CanAccept(Head(vDisconnect))
    /\ CalculateMemPoolAncestors(Pool, Head(vDisconnect), AdmissionLimits).ret
    /\ SetPool(addUnchecked(Pool, Head(vDisconnect), CTxMemPoolEntry(Head(vDisconnect), nTime)))
    /\ vHashUpdate' = Append(vHashUpdate, Head(vDisconnect))
    /\ vDisconnect' = Tail(vDisconnect)
    /\ lastOp' = OpRecord("addUnchecked", << Head(vDisconnect) >>, << >>, 0)
    /\ UNCHANGED << confirmed, fDisconnecting >>
    /\ UNCHANGED auxVars

NextAdmission ==
    \/ \E h \in ChainTxIds : AcceptWithLimits(h, 1)
    \/ \E vtx \in Blocks : RemoveForBlock(vtx)
    \/ \E vtx \in Blocks : DisconnectTip(vtx)
    \/ ResurrectWithLimits(1)
    \/ ResurrectReject
    \/ UpdateFromBlock

SpecAdmission == Init /\ [][NextAdmission]_vars

(***************************************************************************)
(* InitData on any message a peer can send: the header, the short ids and  *)
(* the prefilled list are the peer's choice, well formed or not.           *)
(***************************************************************************)
MaxShortIds == 2

MaxPrefilled == 2

\* the differential indexes a message can carry (uint16_t): small ones and the
\* largest
PrefilledIndexes == {0, 1, 2, UINT16_MAX}

PrefilledTxs == {NullTx, 1, 2}

MessageShortIdValues == {0, 2}

PrefilledTransactions == [index : PrefilledIndexes, tx : PrefilledTxs]

CompactMessages ==
    [header : {NullHeader, CBlock(<< CoinbaseTx >>).header},
     nonce : {0},
     shorttxids : UNION { [1..n -> MessageShortIdValues] : n \in 0..MaxShortIds },
     prefilledtxn : UNION { [1..n -> PrefilledTransactions] : n \in 0..MaxPrefilled }]

\* a peer sends a message; the block it stands for is not known
ReceiveCompactBlock(cmpctblock) ==
    /\ partialBlock.phase = "idle"
    /\ ReconstructorStep([phase |-> "cmpctblock",
                          block |-> [header |-> cmpctblock.header, vtx |-> << >>],
                          cmpctblock |-> cmpctblock])

NextPrefilled ==
    \/ \E h \in PrefilledTxs \ {NullTx} : ReconstructorIdle /\ AddUnchecked(h, 1)
    \/ \E cmpctblock \in CompactMessages : ReceiveCompactBlock(cmpctblock)
    \/ \E vTxHashes \in Orders(DOMAIN mapTx) : InitDataOp(vTxHashes)
    \/ DropPartialBlock

SpecPrefilled == Init /\ [][NextPrefilled]_vars

(***************************************************************************)
(* The notification queue (validationinterface.h).  Callbacks are pushed   *)
(* on the queue by the thread that changes the pool or the chain and are   *)
(* run later, one at a time and oldest first, by the background scheduler  *)
(* or by FlushBackgroundCallbacks.  mainSignals.delivered is the sequence  *)
(* of callbacks run on a listener registered both with                     *)
(* RegisterMempoolInterface and with RegisterValidationInterface.          *)
(***************************************************************************)
\* at most MaxCallbacks callbacks are generated in one execution
MaxCallbacks == 5

Callback(type, block, tx) == [type |-> type, block |-> block, tx |-> tx]

CallbacksGenerated == Len(mainSignals.queue) + Len(mainSignals.delivered)

Enqueue(callbacks) == mainSignals' = [mainSignals EXCEPT !.queue = @ \o callbacks]

\* fault: the newest callback of the queue is run first
PopCallback_Newest(queue) ==
    [callback |-> queue[Len(queue)], queue |-> SubSeq(queue, 1, Len(queue) - 1)]

\* the callback the consumer runs next, and what stays queued
PopCallback(queue) == [callback |-> Head(queue), queue |-> Tail(queue)]

\* a transaction is admitted; TransactionAddedToMempool is queued
AcceptToMemoryPool(h, nTime) ==
    /\ ~fDisconnecting
    /\ CanAccept(h)
    /\ CallbacksGenerated + 1 <= MaxCallbacks
    /\ SetPool(addUnchecked(Pool, h, CTxMemPoolEntry(h, nTime)))
    /\ lastOp' = OpRecord("addUnchecked", << h >>, << >>, 0)
    /\ Enqueue(<< Callback("TransactionAddedToMempool", << >>, h) >>)
    /\ UNCHANGED chainVars
    /\ UNCHANGED << assembler, partialBlock, threads >>

\* a block is connected: removeForBlock, then MempoolUpdatedForBlockConnect
\* is queued, then BlockConnected
ConnectTip(vtx) ==
    /\ ~fDisconnecting
    /\ IsValidBlock(vtx, confirmed)
    /\ CallbacksGenerated + 2 <= MaxCallbacks
    /\ \E r \in { removeForBlock(Pool, vtx) } :
         /\ SetPool(r.pool)
         /\ lastOp' = OpRecord("removeForBlock", vtx, r.conflicts, 0)
    /\ confirmed' = confirmed \cup SeqToSet(vtx)
    /\ Enqueue(<< Callback("MempoolUpdatedForBlockConnect", vtx, 0),
                  Callback("BlockConnected", vtx, 0) >>)
    /\ UNCHANGED << vDisconnect, vHashUpdate, fDisconnecting >>
    /\ UNCHANGED << assembler, partialBlock, threads >>

\* the background thread runs one callback
ProcessQueue ==
    /\ mainSignals.queue # << >>
    /\ \E p \in { PopCallback(mainSignals.queue) } :
         mainSignals' = [queue |-> p.queue,
                         delivered |-> Append(mainSignals.delivered, p.callback)]
    /\ UNCHANGED << poolVars, chainVars, lastOp, assembler, partialBlock, threads >>

RECURSIVE DrainQueue(_)
DrainQueue(s) ==
    IF s.queue = << >> THEN s
    ELSE LET p == PopCallback(s.queue)
         IN  DrainQueue([queue |-> p.queue, delivered |-> Append(s.delivered, p.callback)])

\* the calling thread runs every callback that is left
FlushBackgroundCallbacks ==
    /\ Len(mainSignals.queue) >= 2
    /\ mainSignals' = DrainQueue(mainSignals)
    /\ UNCHANGED << poolVars, chainVars, lastOp, assembler, partialBlock, threads >>

NextSignals ==
    \/ \E h \in ChainTxIds : AcceptToMemoryPool(h, 1)
    \/ \E vtx \in Blocks : ConnectTip(vtx)
    \/ ProcessQueue
    \/ FlushBackgroundCallbacks

SpecSignals == Init /\ [][NextSignals]_vars

(***************************************************************************)
(* The locks.  cs_main guards the chain and CTxMemPool::cs the pool; both  *)
(* are recursive.  Each call is reduced to the LOCK statements it goes     *)
(* through and the ends of their scopes, in program order; the work done   *)
(* under the locks is the operations above.  A thread makes one call at a  *)
(* time and waits at a LOCK while another thread holds the lock.           *)
(***************************************************************************)
LockStep(op, cs) == [op |-> op, cs |-> cs]

LockedCalls == {"CreateNewBlock", "removeForBlock", "InitData", "ConnectTip"}

\* removeForBlock: LOCK(cs) at 518, and again inside remove (439) and
\* removeConflicts (499), which it calls for each transaction
removeForBlockLocks ==
    << LockStep("LOCK", "cs"),
       LockStep("LOCK", "cs"), LockStep("UNLOCK", "cs"),
       LockStep("LOCK", "cs"), LockStep("UNLOCK", "cs"),
       LockStep("UNLOCK", "cs") >>

\* fault: CreateNewBlock takes the pool's lock first
LockSteps_PoolFirst(call) ==
    CASE call = "CreateNewBlock" ->
           << LockStep("LOCK", "cs"), LockStep("LOCK", "cs_main"),
              LockStep("UNLOCK", "cs_main"), LockStep("UNLOCK", "cs") >>
      [] call = "removeForBlock" -> removeForBlockLocks
      [] call = "InitData" -> << LockStep("LOCK", "cs"), LockStep("UNLOCK", "cs") >>
      [] call = "ConnectTip" ->
           << LockStep("LOCK", "cs_main") >> \o removeForBlockLocks
              \o << LockStep("UNLOCK", "cs_main") >>

\* CreateNewBlock: LOCK2(cs_main, mempool.cs), both held to the return;
\* InitData: LOCK(pool->cs) around the scan of the pool; ConnectTip: the
\* caller of removeForBlock, which holds cs_main
LockSteps(call) ==
    CASE call = "CreateNewBlock" ->
           << LockStep("LOCK", "cs_main"), LockStep("LOCK", "cs"),
              LockStep("UNLOCK", "cs"), LockStep("UNLOCK", "cs_main") >>
      [] call = "removeForBlock" -> removeForBlockLocks
      [] call = "InitData" -> << LockStep("LOCK", "cs"), LockStep("UNLOCK", "cs") >>
      [] call = "ConnectTip" ->
           << LockStep("LOCK", "cs_main") >> \o removeForBlockLocks
              \o << LockStep("UNLOCK", "cs_main") >>

Holds(t, cs) == \E i \in DOMAIN threads[t].held : threads[t].held[i] = cs

\* the thread is at a LOCK of a lock that another thread holds
Blocked(t) ==
    /\ threads[t].todo # << >>
    /\ Head(threads[t].todo).op = "LOCK"
    /\ \E u \in Threads \ {t} : Holds(u, Head(threads[t].todo).cs)

ThreadStep(t, held, todo) ==
    /\ threads' = [threads EXCEPT ![t] = [held |-> held, todo |-> todo]]
    /\ UNCHANGED << poolVars, chainVars, lastOp, assembler, partialBlock, mainSignals >>

\* a thread that is in no call enters one
Call(t, call) ==
    /\ threads[t].todo = << >>
    /\ ThreadStep(t, threads[t].held, LockSteps(call))

\* ENTER_CRITICAL_SECTION: the lock is free or the thread's own
Lock(t) ==
    /\ threads[t].todo # << >>
    /\ Head(threads[t].todo).op = "LOCK"
    /\ ~Blocked(t)
    /\ ThreadStep(t, Append(threads[t].held, Head(threads[t].todo).cs), Tail(threads[t].todo))

\* LEAVE_CRITICAL_SECTION at the end of the scope of the innermost LOCK
Unlock(t) ==
    /\ threads[t].todo # << >>
    /\ Head(threads[t].todo).op = "UNLOCK"
    /\ threads[t].held # << >>
    /\ threads[t].held[Len(threads[t].held)] = Head(threads[t].todo).cs
    /\ ThreadStep(t, SubSeq(threads[t].held, 1, Len(threads[t].held) - 1),
                  Tail(threads[t].todo))

NextLocks ==
    \/ \E t \in Threads, call \in LockedCalls : Call(t, call)
    \/ \E t \in Threads : Lock(t)
    \/ \E t \in Threads : Unlock(t)

SpecLocks == Init /\ [][NextLocks]_vars

(***************************************************************************)
(* RemoveRecentTransactionsFromBlock (miner.cpp 274-310).  The function    *)
(* takes a WorkingState and has no caller in miner.cpp; it is run here on  *)
(* the working state addPackageTxs leaves, whose block.vtx starts with the *)
(* dummy coinbase CreateNewBlock puts there (line 128, a null              *)
(* CTransactionRef), and on the same working state without that first      *)
(* element.  Dereferencing the null reference (line 284) ends the process, *)
(* as does the assertion of line 285.                                      *)
(***************************************************************************)
\* a default-constructed CTransactionRef
NullTransactionRef == -1

\* lines 283-303: the body of the loop over block.vtx for one element; index
\* counts the elements copied (element index of the code is index + 1 here)
RemoveRecentStep(p, st, ptx, timeCutoff) ==
    IF st.ret # "returned" THEN st
    ELSE IF ptx = NullTransactionRef \/ ptx \notin DOMAIN p.mapTx
         THEN [st EXCEPT !.ret = "aborted"]
         ELSE IF p.mapTx[ptx].nTime < timeCutoff /\ ptx \notin st.descendantTransactions
              THEN [st EXCEPT !.vtxCopy[st.index + 1] = ptx,
                              !.vTxFeesCopy[st.index + 1] = p.mapTx[ptx].nFee,
                              !.vTxSigOpsCostCopy[st.index + 1] = GetSigOpCost(ptx),
                              !.index = @ + 1]
              ELSE [st EXCEPT !.skippedTransactions = @ \cup {ptx},
                              !.a.nBlockWeight = @ - GetTxWeight(ptx),
                              !.a.nBlockTx = @ - 1,
                              !.a.nBlockSigOpsCost = @ - GetSigOpCost(ptx),
                              !.a.inBlock = @ \ {ptx},
                              !.descendantTransactions =
                                  CalculateDescendants(p, ptx, st.descendantTransactions)]

\* lines 274-310: the copies are made as long as block.vtx (276-278), filled
\* from the front and swapped in (307-309); a process that was ended leaves
\* no working state
RemoveRecentTransactionsFromBlock(p, a, timeCutoff) ==
    LET st == FoldSeq(LAMBDA acc, ptx : RemoveRecentStep(p, acc, ptx, timeCutoff),
                      [a |-> a, ret |-> "returned", index |-> 0,
                       vtxCopy |-> [i \in 1..Len(a.vtx) |-> NullTransactionRef],
                       vTxFeesCopy |-> [i \in 1..Len(a.vtx) |-> 0],
                       vTxSigOpsCostCopy |-> [i \in 1..Len(a.vtx) |-> 0],
                       skippedTransactions |-> {}, descendantTransactions |-> {}],
                      a.vtx)
    IN  [ret |-> st.ret,
         a |-> IF st.ret # "returned" THEN a
               ELSE [st.a EXCEPT !.vtx = st.vtxCopy,
                                 !.vTxFees = st.vTxFeesCopy,
                                 !.vTxSigOpsCost = st.vTxSigOpsCostCopy]]

\* the cutoffs: before every entry time, between them, after all of them
TimeCutoffs == 1..(MaxTime + 1)

\* the working state without the dummy coinbase
WithoutDummy(a) ==
    [a EXCEPT !.vtx = Tail(@), !.vTxFees = Tail(@), !.vTxSigOpsCost = Tail(@)]

\* the call, once addPackageTxs has returned; before is the working state the
\* function was given
RemoveRecentOp(timeCutoff, fromDummy) ==
    /\ assembler.phase = "coinbase"
    /\ \E before \in { IF fromDummy THEN assembler ELSE WithoutDummy(assembler) } :
       \E r \in { RemoveRecentTransactionsFromBlock(Pool, before, timeCutoff) } :
         AssemblerStep([phase |-> "recent", timeCutoff |-> timeCutoff,
                        before |-> before, ret |-> r.ret, after |-> r.a])

\* the working state is given up
DropWorkingState ==
    /\ assembler.phase = "recent"
    /\ AssemblerStep(NoAssembler)

NextRecent ==
    \/ \E h \in TxIds, nTime \in 1..MaxTime :
          /\ AssemblerIdle
          /\ Cardinality(DOMAIN mapTx) < MaxPoolTxs
          /\ AddUnchecked(h, nTime)
    \/ \E w \in BlockMaxWeights, r \in BlockMinFeeRates, nf \in NonFinalSets :
          CreateNewBlock(w, r, nf)
    \/ SkipEntry
    \/ PackageBelowMinFee
    \/ PackageFailsLimits
    \/ PackageFailsTxChecks
    \/ PackageAdded
    \/ PackagesDone
    \/ \E timeCutoff \in TimeCutoffs, fromDummy \in BOOLEAN :
          RemoveRecentOp(timeCutoff, fromDummy)
    \/ DropWorkingState

SpecRecent == Init /\ [][NextRecent]_vars

(***************************************************************************)
(* CTxMemPool::check, the dependency pass.  mempoolDuplicate is a coins    *)
(* view on top of pcoins; a view is the set of the outpoints it holds      *)
(* unspent.  The function runs under cs, so nothing else touches the pool  *)
(* while it runs; its position is kept in lastOp.  mapTx.begin() walks the *)
(* pool by its first index, whose order is unrelated to the dependencies:  *)
(* every order of the pool is an input.                                    *)
(***************************************************************************)
\* the outputs a transaction creates
CoinsOf(h) ==
    { <<h, n>> : n \in 0..((IF h \in ExternalHashes THEN 2 ELSE TxOf(h).nOut) - 1) }

\* the chain's coins: the outputs of confirmed transactions nothing confirmed spends
pcoins ==
    { o \in UNION { CoinsOf(h) : h \in ExternalHashes \cup confirmed } :
        ~SpentInChain(o, confirmed) }

HaveInputs(view, h) == Prevouts(h) \subseteq view

\* UpdateCoins: the inputs are spent, the outputs are added
UpdateCoins(view, h) == (view \ Prevouts(h)) \cup CoinsOf(h)

\* the for loop over mapTx, as far as the dependency pass goes: an entry
\* with an input in the pool waits, any other has its inputs in pcoins
\* (asserted) and is applied to mempoolDuplicate at once; CheckInputs, which
\* is asserted, fails on an input the view does not hold
CheckFirstPass(p, order, view) ==
    FoldSeq(LAMBDA st, h :
              IF ~st.asserted THEN st
              ELSE IF \E o \in Prevouts(h) : o[1] \in DOMAIN p.mapTx
              THEN [st EXCEPT !.asserted =
                                 \A o \in Prevouts(h) :
                                    o[1] \in DOMAIN p.mapTx \/ o \in view,
                              !.waitingOnDependants = Append(@, h)]
              ELSE [st EXCEPT !.asserted = /\ Prevouts(h) \subseteq view
                                           /\ HaveInputs(st.mempoolDuplicate, h),
                              !.mempoolDuplicate = UpdateCoins(@, h),
                              !.applied = Append(@, h)],
            [asserted |-> TRUE, waitingOnDependants |-> << >>,
             mempoolDuplicate |-> view, applied |-> << >>,
             stepsSinceLastRemove |-> 0],
            order)

\* fault: the entry at the front is applied whether its inputs are there or not
CheckLoopStep_NoHaveInputs(st) ==
    [st EXCEPT !.waitingOnDependants = Tail(@),
               !.mempoolDuplicate = UpdateCoins(@, Head(st.waitingOnDependants)),
               !.applied = Append(@, Head(st.waitingOnDependants)),
               !.stepsSinceLastRemove = 0]

\* one pass of the while loop
CheckLoopStep(st) ==
    LET entry == Head(st.waitingOnDependants)
        popped == Tail(st.waitingOnDependants)
    IN  IF ~HaveInputs(st.mempoolDuplicate, entry)
        THEN [st EXCEPT !.waitingOnDependants = Append(popped, entry),
                        !.stepsSinceLastRemove = @ + 1,
                        !.asserted = st.stepsSinceLastRemove + 1 < Len(popped) + 1]
        ELSE [st EXCEPT !.waitingOnDependants = popped,
                        !.mempoolDuplicate = UpdateCoins(@, entry),
                        !.applied = Append(@, entry),
                        !.stepsSinceLastRemove = 0]

CheckIdle == IF lastOp.op = "check" THEN lastOp.phase # "loop" ELSE TRUE

\* what lastOp holds of a running check: the order of the walk and the
\* locals of the function; a failed assertion ends the program
CheckRecord(order, st) ==
    [op |-> "check", order |-> order,
     phase |-> IF st.asserted THEN "loop" ELSE "aborted",
     waitingOnDependants |-> st.waitingOnDependants,
     mempoolDuplicate |-> st.mempoolDuplicate,
     applied |-> st.applied,
     stepsSinceLastRemove |-> st.stepsSinceLastRemove,
     asserted |-> st.asserted]

\* check() is entered and runs up to the while loop
CheckEnter(order) ==
    /\ CheckIdle
    /\ ~fDisconnecting
    /\ \E st \in { CheckFirstPass(Pool, order, pcoins) } :
         lastOp' = CheckRecord(order, st)
    /\ UNCHANGED << poolVars, chainVars >>
    /\ UNCHANGED auxVars

CheckLoop ==
    /\ ~CheckIdle
    /\ lastOp.waitingOnDependants # << >>
    /\ \E st \in { CheckLoopStep(lastOp) } :
         lastOp' = CheckRecord(lastOp.order, st)
    /\ UNCHANGED << poolVars, chainVars >>
    /\ UNCHANGED auxVars

\* the loop is left and the function goes on to mapNextTx and the totals
CheckLeaveLoop ==
    /\ ~CheckIdle
    /\ lastOp.waitingOnDependants = << >>
    /\ lastOp' = [lastOp EXCEPT !.phase = "done"]
    /\ UNCHANGED << poolVars, chainVars >>
    /\ UNCHANGED auxVars

NextCheck ==
    \/ \E h \in ChainTxIds :
          /\ CheckIdle
          /\ Cardinality(DOMAIN mapTx) < MaxPoolTxs
          /\ AddUnchecked(h, 1)
    \/ \E vtx \in Blocks :
          /\ CheckIdle
          /\ RemoveForBlock(vtx)
    \/ \E order \in Orders(DOMAIN mapTx) : CheckEnter(order)
    \/ CheckLoop
    \/ CheckLeaveLoop

SpecCheck == Init /\ [][NextCheck]_vars

\* the thread that runs check() holds cs and is not starved: once in
\* the loop it takes its next step
SpecCheckFair == SpecCheck /\ WF_vars(CheckLoop) /\ WF_vars(CheckLeaveLoop)

(***************************************************************************)
(* What the pool should hold, computed from the transactions alone.        *)
(***************************************************************************)
\* the pool entries h spends from
TrueParents(h) == { q \in DOMAIN mapTx : q \in PrevHashes(h) }

\* S with every transaction of pool that descends from a member of S
RECURSIVE DescendantClosure(_, _)
DescendantClosure(pool, S) ==
    LET n == S \cup { c \in pool : PrevHashes(c) \cap S # {} }
    IN  IF n = S THEN S ELSE DescendantClosure(pool, n)

\* the transactions of pool that h descends from
RECURSIVE AncestorsIn(_, _)
AncestorsIn(pool, S) ==
    LET n == S \cup { a \in pool : \E c \in S : a \in PrevHashes(c) }
    IN  IF n = S THEN S ELSE AncestorsIn(pool, n)

LinksInverse ==
    \A e \in DOMAIN mapTx : \A q \in DOMAIN mapTx :
        q \in mapLinks[e].parents <=> e \in mapLinks[q].children

LinksExact ==
    /\ DOMAIN mapLinks = DOMAIN mapTx
    /\ \A e \in DOMAIN mapTx : mapLinks[e].parents = TrueParents(e)
    /\ LinksInverse

(***************************************************************************)
(* C1.  As stated: after any sequence of addUnchecked, remove,             *)
(* removeConflicts, removeForBlock, Expire and RemoveStaged, the parents   *)
(* of every entry are exactly the pool entries it spends from, and         *)
(* children is the inverse of parents.  This fails while a disconnected    *)
(* block is being re-added.                                                *)
(***************************************************************************)
C1_LinksExactAlways == LinksExact

\* C1, amended: the links are exact whenever no block disconnection is under
\* way; while one is, the recorded links are genuine and mutually inverse, and
\* the only links missing are those of the re-added transactions to the
\* children that stayed in the pool
C1_LinksExactOutsideReorg ==
    /\ ~fDisconnecting => LinksExact
    /\ fDisconnecting =>
         /\ DOMAIN mapLinks = DOMAIN mapTx
         /\ LinksInverse
         /\ \A e \in DOMAIN mapTx :
              /\ mapLinks[e].parents \subseteq TrueParents(e)
              /\ TrueParents(e) \ mapLinks[e].parents \subseteq SeqToSet(vHashUpdate)

\* UpdateTransactionsFromBlock has restored the links of a re-added parent
C1_Witness ==
    /\ lastOp.op = "UpdateTransactionsFromBlock"
    /\ \E e \in DOMAIN mapTx : Cardinality(mapLinks[e].parents) = 2
    /\ \E e \in DOMAIN mapTx : mapTx[e].nCountWithDescendants >= 3

(***************************************************************************)
(* C2.  mapNextTx holds one entry prevout -> (tx, i) for each input i of   *)
(* each pool transaction and no other: no outpoint is spent by two pool    *)
(* transactions and no entry refers to a transaction that left the pool.   *)
(***************************************************************************)
C2_NextTxExact ==
    /\ DOMAIN mapNextTx = UNION { Prevouts(h) : h \in DOMAIN mapTx }
    /\ \A o \in DOMAIN mapNextTx :
         /\ mapNextTx[o].ptx \in DOMAIN mapTx
         /\ mapNextTx[o].n \in 0..(Len(TxOf(mapNextTx[o].ptx).vin) - 1)
         /\ TxOf(mapNextTx[o].ptx).vin[mapNextTx[o].n + 1] = o
    /\ \A h1, h2 \in DOMAIN mapTx : h1 # h2 => Prevouts(h1) \cap Prevouts(h2) = {}

\* a removal has taken entries out and left a transaction with two inputs
C2_Witness ==
    /\ lastOp.op \in {"remove", "removeForBlock", "Expire", "SurplusTrim"}
    /\ lastOp.list # << >>
    /\ \E h \in DOMAIN mapTx : Cardinality(Prevouts(h)) = 2

(***************************************************************************)
(* C3.  After any sequence of public operations every entry that is not    *)
(* dirty has count, size and fees with descendants equal to the number,    *)
(* total size and total fee of the entry and its in-pool descendants.      *)
(* The property is stated for the states where no block disconnection is   *)
(* under way: between the re-adding of a block's transactions and          *)
(* UpdateTransactionsFromBlock the aggregates are known to be incomplete.  *)
(* It fails after a disconnection in which a transaction of the block is   *)
(* not re-accepted and its in-pool child also spends from a re-added one.  *)
(***************************************************************************)
AggregatesExact ==
    \A e \in DOMAIN mapTx :
        ~IsDirty(mapTx[e]) =>
            LET D == DescendantClosure(DOMAIN mapTx, {e}) IN
            /\ mapTx[e].nCountWithDescendants = Cardinality(D)
            /\ mapTx[e].nSizeWithDescendants = SumOver([d \in D |-> mapTx[d].nTxSize], D)
            /\ mapTx[e].nFeesWithDescendants = SumOver([d \in D |-> mapTx[d].nFee], D)

C3_AggregatesExact == ~fDisconnecting => AggregatesExact

(***************************************************************************)
(* C4.  totalTxSize is the sum of the sizes of the pool entries, and       *)
(* cachedInnerUsage the sum over the entries of the entry's own usage plus *)
(* the usage of its parents set and of its children set.                   *)
(***************************************************************************)
C4_AccountingExact ==
    /\ totalTxSize = SumOver([e \in DOMAIN mapTx |-> mapTx[e].nTxSize], DOMAIN mapTx)
    /\ cachedInnerUsage =
         SumOver([e \in DOMAIN mapTx |->
                     mapTx[e].nUsageSize + DynamicUsage(mapLinks[e].parents)
                       + DynamicUsage(mapLinks[e].children)],
                 DOMAIN mapTx)

\* links have been added by a reorganisation and entries removed since
C4_Witness ==
    /\ lastOp.op \in {"remove", "removeForBlock", "Expire", "SurplusTrim"}
    /\ \E e \in DOMAIN mapTx : mapLinks[e].parents # {}
    /\ cachedInnerUsage > 0
    /\ confirmed # {}

(***************************************************************************)
(* C5.  As stated: whenever an entry is removed from the pool, every       *)
(* in-pool descendant of that entry is removed by the same operation.      *)
(* This fails for the transactions of a connected block: removeForBlock    *)
(* removes them alone and their children stay.                             *)
(***************************************************************************)
RemovedWithDescendants(h) ==
    \A d \in DescendantClosure(DOMAIN mapTx, {h}) : d \notin DOMAIN mapTx'

C5_DescendantsRemovedAlways ==
    [][\A h \in DOMAIN mapTx : h \notin DOMAIN mapTx' => RemovedWithDescendants(h)]_vars

\* C5, amended: every entry an operation removes leaves with all its in-pool
\* descendants, except the transactions of the block removeForBlock is given
\* (the ones that become confirmed), whose children stay in the pool
C5_DescendantsRemovedButBlock ==
    [][\A h \in DOMAIN mapTx :
          h \notin DOMAIN mapTx' => h \in confirmed' \ confirmed \/ RemovedWithDescendants(h)]_vars

\* an expiry has removed an old entry with its descendants and left a newer entry
C5_Witness ==
    /\ lastOp.op = "Expire"
    /\ lastOp.ret >= 3
    /\ \E e \in DOMAIN mapTx : mapTx[e].nTime = MaxTime

(***************************************************************************)
(* C6.  As stated: a delta recorded by PrioritiseTransaction for a txid is *)
(* still held, and still added by ApplyDeltas, after the transaction has   *)
(* been removed from the pool by any removal operation.  This fails for    *)
(* removeForBlock, which clears the deltas of the block's transactions.    *)
(***************************************************************************)
DeltaKept(h) ==
    /\ h \in DOMAIN mapDeltas'
    /\ mapDeltas'[h] = mapDeltas[h]
    /\ ApplyDeltas(Pool', h, 0, 0) = mapDeltas[h]

BlockPrevouts(vtx) == UNION { Prevouts(vtx[i]) : i \in 1..Len(vtx) }

\* the pool entries that conflict with the block
ConflictsOf(vtx) ==
    { e \in DOMAIN mapTx : e \notin SeqToSet(vtx) /\ Prevouts(e) \cap BlockPrevouts(vtx) # {} }

C7_RemoveForBlockPost ==
    [][confirmed' # confirmed /\ lastOp'.op = "removeForBlock" =>
          /\ SeqToSet(lastOp'.vtx) \cap DOMAIN mapTx' = {}
          /\ \A e \in DOMAIN mapTx' : Prevouts(e) \cap BlockPrevouts(lastOp'.vtx) = {}
          /\ DescendantClosure(DOMAIN mapTx, ConflictsOf(lastOp'.vtx))
                \subseteq SeqToSet(lastOp'.list)]_vars

\* a block has been connected whose transaction was not in the pool, and its
\* conflict and the conflict's descendant are in the conflicts list
C7_Witness ==
    /\ lastOp.op = "removeForBlock"
    /\ Len(lastOp.list) >= 2
    /\ \E i, j \in 1..Len(lastOp.list) :
         /\ Prevouts(lastOp.list[i]) \cap BlockPrevouts(lastOp.vtx) # {}
         /\ lastOp.list[i] \in PrevHashes(lastOp.list[j])

(***************************************************************************)
(* The call StageTrimToSize(sizelimit, toadd, nFeesReserved, stage,        *)
(* nFeesRemoved) that lastOp records was made on the pool of this state    *)
(* with an empty stage and nFeesRemoved = 0.                               *)
(***************************************************************************)
AfterStageTrim == lastOp.op = "StageTrimToSize"

IncomingUsage == GuessDynamicMemoryUsage(lastOp.toadd, CTxMemPoolEntry(lastOp.toadd, 0))

ExpectedSize == DynamicMemoryUsage(Pool) + IncomingUsage

\* the fees and the estimated usage of the staged transactions, each counted once
StagedFees == SumOver([h \in lastOp.stage |-> mapTx[h].nFee], lastOp.stage)

StagedUsage ==
    SumOver([h \in lastOp.stage |-> GuessDynamicMemoryUsage(h, mapTx[h])], lastOp.stage)

\* the in-pool ancestors of the incoming transaction, direct and indirect
IncomingAncestors == AncestorsIn(DOMAIN mapTx, {lastOp.toadd}) \ {lastOp.toadd}

(***************************************************************************)
(* C8.  StageTrimToSize never places an in-pool ancestor, direct or        *)
(* indirect, of the incoming transaction in the stage, whichever           *)
(* candidates the sampling skips.                                          *)
(***************************************************************************)
C8_AncestorsNotStaged == AfterStageTrim => lastOp.stage \cap IncomingAncestors = {}

\* a trim succeeded for a transaction that has an indirect ancestor in the pool
\* by staging another entry
C8_Witness ==
    /\ AfterStageTrim
    /\ lastOp.fRet
    /\ lastOp.stage # {}
    /\ IncomingAncestors \ PrevHashes(lastOp.toadd) # {}

(***************************************************************************)
(* C9.  When StageTrimToSize returns, nFeesRemoved has grown by the sum of *)
(* the fees of the transactions added to the stage, for every dependency   *)
(* shape among them.  This fails when a staged transaction is reached      *)
(* twice by the walk (a diamond, a child spending two outputs).            *)
(***************************************************************************)
C9_FeesRemovedExact == AfterStageTrim => lastOp.nFeesRemoved = StagedFees

(***************************************************************************)
(* C10.  StageTrimToSize returns true only when the expected size is       *)
(* within sizelimit, stage and nFeesRemoved being untouched, or when the   *)
(* estimated usage of the distinct staged transactions is at least         *)
(* min(expected size - sizelimit, incoming usage).  This fails when the    *)
(* usage of a staged transaction is counted twice.                         *)
(***************************************************************************)
C10_TrueOnlyWhenTrimmed ==
    AfterStageTrim /\ lastOp.fRet =>
        \/ ExpectedSize <= lastOp.sizelimit /\ lastOp.stage = {} /\ lastOp.nFeesRemoved = 0
        \/ /\ ExpectedSize > lastOp.sizelimit
           /\ StagedUsage >= Min(ExpectedSize - lastOp.sizelimit, IncomingUsage)

(***************************************************************************)
(* C11.  After Expire(t) returns n: no pool entry has entry time < t;      *)
(* every removed entry had entry time < t or descended in the pool from    *)
(* such an entry; every entry with time >= t and no expired ancestor is    *)
(* still in the pool; n is the number of entries removed.  A cutoff above  *)
(* every entry time empties the pool, a cutoff of 0 leaves it unchanged.   *)
(***************************************************************************)
ExpiredBy(t) == { h \in DOMAIN mapTx : mapTx[h].nTime < t }

ExpirePost(t) ==
    LET removed == DOMAIN mapTx \ DOMAIN mapTx' IN
    /\ DOMAIN mapTx' \subseteq DOMAIN mapTx
    /\ \A h \in DOMAIN mapTx' : mapTx'[h].nTime >= t
    /\ removed \subseteq DescendantClosure(DOMAIN mapTx, ExpiredBy(t))
    /\ \A h \in DOMAIN mapTx :
         (mapTx[h].nTime >= t /\ AncestorsIn(DOMAIN mapTx, {h}) \cap ExpiredBy(t) = {})
            => h \in DOMAIN mapTx'
    /\ lastOp'.ret = Cardinality(removed)
    /\ (\A h \in DOMAIN mapTx : mapTx[h].nTime < t) => mapTx' = EmptyMap
    /\ t = 0 => UNCHANGED << mapTx, mapLinks, mapNextTx, totalTxSize,
                             cachedInnerUsage, mapDeltas >>

C11_ExpirePost ==
    [][\A t \in 0..(MaxTime + 1) :
          (lastOp'.op = "Expire" /\ ExpireOp(t)) => ExpirePost(t)]_vars

\* an expiry has removed two entries and has left two
C11_Witness ==
    /\ lastOp.op = "Expire"
    /\ lastOp.ret = 2
    /\ Cardinality(DOMAIN mapTx) = 2

(***************************************************************************)
(* C12.  CalculateMemPoolAncestors returns true if and only if the number  *)
(* of in-pool ancestors of the entry plus 1 is at most limitAncestorCount, *)
(* the entry's size plus the total size of its ancestors is at most        *)
(* limitAncestorSize, and every ancestor a has size_with_descendants +     *)
(* entry size <= limitDescendantSize and count_with_descendants + 1 <=     *)
(* limitDescendantCount; otherwise it returns false with an error string.  *)
(***************************************************************************)
AfterCheckLimits == lastOp.op = "CalculateMemPoolAncestors"

TrueAncestors(h) == AncestorsIn(DOMAIN mapTx \cup {h}, {h}) \ {h}

WithinLimits(h, lim) ==
    LET anc == TrueAncestors(h) IN
    /\ Cardinality(anc) + 1 <= lim.limitAncestorCount
    /\ TxOf(h).nTxSize + SumOver([a \in anc |-> mapTx[a].nTxSize], anc)
          <= lim.limitAncestorSize
    /\ \A a \in anc :
         /\ mapTx[a].nSizeWithDescendants + TxOf(h).nTxSize <= lim.limitDescendantSize
         /\ mapTx[a].nCountWithDescendants + 1 <= lim.limitDescendantCount

C12_TrueIffWithinLimits ==
    AfterCheckLimits =>
        /\ lastOp.fRet <=> WithinLimits(lastOp.hash, lastOp.lim)
        /\ ~lastOp.fRet => lastOp.errString # ""
        /\ lastOp.fRet => lastOp.setAncestors = TrueAncestors(lastOp.hash)

\* a transaction with three in-pool ancestors was refused for the ancestor
\* count alone, in the walk over its grandparents
C12_Witness ==
    /\ AfterCheckLimits
    /\ ~lastOp.fRet
    /\ lastOp.errString = "too many unconfirmed ancestors"
    /\ Cardinality(TrueAncestors(lastOp.hash)) = 3
    /\ lastOp.lim.limitAncestorSize = nNoLimit
    /\ lastOp.lim.limitDescendantCount = nNoLimit
    /\ lastOp.lim.limitDescendantSize = nNoLimit

(***************************************************************************)
(* C13.  Whenever a pool entry is dirty, its size and fees with            *)
(* descendants are those of the entry alone (its own size, its own fee),   *)
(* whatever descendants have been added to or removed from the pool.  An   *)
(* entry is dirty when its stored count is 0, so the stored count is not   *)
(* compared with 1.  Stated for the states where no block disconnection is *)
(* under way.  It fails for an entry whose count was taken from 1 to 0 by  *)
(* the removal, during a disconnection, of a child it had never counted.   *)
(***************************************************************************)
DirtySelfOnly ==
    \A e \in DOMAIN mapTx :
        IsDirty(mapTx[e]) =>
            /\ mapTx[e].nSizeWithDescendants = mapTx[e].nTxSize
            /\ mapTx[e].nFeesWithDescendants = mapTx[e].nFee

C13_DirtySelfOnly == ~fDisconnecting => DirtySelfOnly

(***************************************************************************)
(* C14.  At every step of addPackageTxs and in the returned template, the  *)
(* accumulated weight of the selected transactions is below                *)
(* nBlockMaxWeight and their accumulated sigop cost is below               *)
(* MAX_BLOCK_SIGOPS_COST; the assembler's counters are those sums plus     *)
(* what is reserved for the coinbase, and are below the limits as soon as  *)
(* a transaction has been selected.                                        *)
(***************************************************************************)
Assembling == assembler.phase # "idle"

\* the transactions selected so far, the coinbase left out
SelectedTxs == [i \in 1..(Len(assembler.vtx) - 1) |-> assembler.vtx[i + 1]]

RECURSIVE SumSeq(_, _)
SumSeq(F(_), s) == IF s = << >> THEN 0 ELSE F(Head(s)) + SumSeq(F, Tail(s))

C14_BelowBlockLimits ==
    Assembling =>
        /\ SumSeq(GetTxWeight, SelectedTxs) < assembler.nBlockMaxWeight
        /\ SumSeq(GetSigOpCost, SelectedTxs) < MAX_BLOCK_SIGOPS_COST
        /\ assembler.nBlockWeight = CoinbaseReservedWeight + SumSeq(GetTxWeight, SelectedTxs)
        /\ assembler.nBlockSigOpsCost =
              CoinbaseReservedSigOps + SumSeq(GetSigOpCost, SelectedTxs)
        /\ SelectedTxs # << >> =>
              /\ assembler.nBlockWeight < assembler.nBlockMaxWeight
              /\ assembler.nBlockSigOpsCost < MAX_BLOCK_SIGOPS_COST

\* a template of at least two transactions that has no room for another one,
\* after a package was refused for the limits
C14_Witness ==
    /\ assembler.phase = "template"
    /\ assembler.nBlockTx >= 2
    /\ assembler.nBlockWeight + WITNESS_SCALE_FACTOR >= assembler.nBlockMaxWeight
    /\ assembler.nConsecutiveFailed > 0

(***************************************************************************)
(* C15.  In the transaction list built by addPackageTxs every pool         *)
(* transaction appears at most once, every in-pool ancestor of an included *)
(* transaction is included, and each transaction is placed after all of    *)
(* its in-pool parents.                                                    *)
(***************************************************************************)
C15_ParentsFirst ==
    Assembling =>
        /\ \A i, j \in 1..Len(SelectedTxs) : SelectedTxs[i] = SelectedTxs[j] => i = j
        /\ \A i \in 1..Len(SelectedTxs) :
             /\ SelectedTxs[i] \in DOMAIN mapTx
             /\ AncestorsIn(DOMAIN mapTx, {SelectedTxs[i]}) \subseteq SeqToSet(SelectedTxs)
             /\ \A q \in TrueParents(SelectedTxs[i]) :
                  \E j \in 1..(i - 1) : SelectedTxs[j] = q

\* a template holds transaction 4 with its parents 2 and 3 and their parent 1
C15_Witness ==
    /\ assembler.phase = "template"
    /\ {1, 2, 3, 4} \subseteq SeqToSet(SelectedTxs)

(***************************************************************************)
(* C16.  Every package added to the block had, when it was selected,       *)
(* package fees >= blockMinFeeRate.GetFee(package size), fees and size     *)
(* being the totals over the entry and its ancestors that were not yet in  *)
(* the block; selection returns at the first chosen candidate below that   *)
(* rate.  When every pool entry's fee rate is below the minimum, the       *)
(* template holds only the coinbase.                                       *)
(***************************************************************************)
PackageModFees(S) == SumOver([h \in S |-> GetModifiedFee(Pool, h)], S)

PackageTxSize(S) == SumOver([h \in S |-> mapTx[h].nTxSize], S)

EntryBelowMinRate(h) ==
    GetModifiedFee(Pool, h) < GetFee(assembler.blockMinFeeRate, mapTx[h].nTxSize)

C16_PackagesAtMinFeeRate ==
    Assembling =>
        /\ (assembler.phase # "template" /\ assembler.last.kind = "added") =>
             /\ assembler.last.packageFees = PackageModFees(assembler.last.package)
             /\ assembler.last.packageSize = PackageTxSize(assembler.last.package)
             /\ PackageModFees(assembler.last.package) >=
                   GetFee(assembler.blockMinFeeRate, PackageTxSize(assembler.last.package))
        /\ (assembler.phase # "template" /\ assembler.last.kind = "return") =>
             /\ assembler.phase = "coinbase"
             /\ assembler.last.packageFees <
                   GetFee(assembler.blockMinFeeRate, assembler.last.packageSize)
        /\ (assembler.phase = "template" /\ \A h \in DOMAIN mapTx : EntryBelowMinRate(h)) =>
             assembler.vtx = << CoinbaseTx >>

\* a package of two transactions was added from mapModifiedTx under a
\* minimum fee rate that some pool entry does not reach
C16_Witness ==
    /\ assembler.phase = "packages"
    /\ assembler.last.kind = "added"
    /\ assembler.last.fUsingModified
    /\ Cardinality(assembler.last.package) >= 2
    /\ \E h \in DOMAIN mapTx : EntryBelowMinRate(h)

(***************************************************************************)
(* C17.  In the template returned by CreateNewBlock the coinbase output    *)
(* value is the block subsidy plus the sum of vTxFees[i] for i >= 1,       *)
(* vTxFees[0] is minus that sum, and vTxFees and vTxSigOpsCost have one    *)
(* element per block transaction, in block order.                          *)
(***************************************************************************)
\* the sum of the elements of a list of amounts after the first
RECURSIVE SumFrom(_, _)
SumFrom(s, i) == IF i > Len(s) THEN 0 ELSE s[i] + SumFrom(s, i + 1)

C17_CoinbaseValue ==
    assembler.phase = "template" =>
        /\ assembler.coinbaseValue = BlockSubsidy + SumFrom(assembler.vTxFees, 2)
        /\ assembler.vTxFees[1] = -SumFrom(assembler.vTxFees, 2)
        /\ Len(assembler.vTxFees) = Len(assembler.vtx)
        /\ Len(assembler.vTxSigOpsCost) = Len(assembler.vtx)
        /\ assembler.vtx[1] = CoinbaseTx
        /\ assembler.vTxSigOpsCost[1] = WITNESS_SCALE_FACTOR * CoinbaseLegacySigOps
        /\ \A i \in 2..Len(assembler.vtx) :
             /\ assembler.vTxFees[i] = mapTx[assembler.vtx[i]].nFee
             /\ assembler.vTxSigOpsCost[i] = GetSigOpCost(assembler.vtx[i])

\* a template with a prioritised transaction among at least two
C17_Witness ==
    /\ assembler.phase = "template"
    /\ Len(assembler.vtx) >= 3
    /\ \E i \in 2..Len(assembler.vtx) : assembler.vtx[i] \in DOMAIN mapDeltas

(***************************************************************************)
(* Compact blocks: the state of the reconstruction under way.              *)
(***************************************************************************)
InitDataReturned == partialBlock.phase = "init"

FillBlockReturned == partialBlock.phase = "filled"

\* every transaction of the announced block but the coinbase is in the pool
BlockTxsInPool ==
    \A i \in 2..Len(partialBlock.block.vtx) : partialBlock.block.vtx[i] \in DOMAIN mapTx

\* the short id of a hash under the key of the message received
ShortIdOf(h) ==
    GetShortID(partialBlock.cmpctblock.header, partialBlock.cmpctblock.nonce, h)

MessageShortIds ==
    { partialBlock.cmpctblock.shorttxids[i] : i \in DOMAIN partialBlock.cmpctblock.shorttxids }

\* no pool transaction has the short id of another transaction of the block
NoShortIdCollision ==
    \A i \in 2..Len(partialBlock.block.vtx) :
        \A h \in (DOMAIN mapTx) \ { partialBlock.block.vtx[i] } :
            ShortIdOf(h) # ShortIdOf(partialBlock.block.vtx[i])

\* the block passes the checks that do not depend on the pool
BlockPassesChecks ==
    /\ BlockTxCount(partialBlock.cmpctblock) <= MaxCompactTxCount
    /\ ~BucketSizeExceeded(partialBlock.cmpctblock)
    /\ CheckBlock(partialBlock.block) = "Valid"

RoundTripHolds ==
    /\ InitDataReturned => partialBlock.ret = READ_STATUS_OK
    /\ (FillBlockReturned /\ partialBlock.vtx_missing = << >>)
          => /\ partialBlock.ret = READ_STATUS_OK
             /\ partialBlock.vtx = partialBlock.block.vtx

(***************************************************************************)
(* C18.  For a block whose transactions other than the coinbase are all in *)
(* the pool, the compact block built from it, given to InitData and then   *)
(* to FillBlock with no missing transactions, returns OK and gives back    *)
(* the block's transaction list, whatever else the pool holds.             *)
(***************************************************************************)
C18_RoundTrip ==
    (~ReconstructorIdle /\ BlockTxsInPool) => RoundTripHolds

\* C18 as it holds: the round trip succeeds when, in addition, no pool
\* transaction shares the short id of another transaction of the block and
\* the block passes the checks of InitData and CheckBlock
C18_RoundTripWithoutCollision ==
    (~ReconstructorIdle /\ BlockTxsInPool /\ NoShortIdCollision /\ BlockPassesChecks)
        => RoundTripHolds

C18_Witness ==
    /\ FillBlockReturned
    /\ BlockTxsInPool /\ NoShortIdCollision /\ BlockPassesChecks
    /\ partialBlock.vtx_missing = << >>
    /\ partialBlock.ret = READ_STATUS_OK
    /\ partialBlock.vtx = partialBlock.block.vtx
    /\ Len(partialBlock.block.vtx) >= 3
    /\ \E h \in DOMAIN mapTx : \A i \in DOMAIN partialBlock.block.vtx :
           partialBlock.block.vtx[i] # h

(***************************************************************************)
(* C19.  When two distinct pool transactions have the same short id under  *)
(* the key of the message and that short id is in the message, InitData    *)
(* returns FAILED.                                                         *)
(***************************************************************************)
PoolCollisionOn(s) ==
    /\ s \in MessageShortIds
    /\ \E a, b \in DOMAIN mapTx : a # b /\ ShortIdOf(a) = s /\ ShortIdOf(b) = s

DuplicateShortIds ==
    Cardinality(MessageShortIds) # Len(partialBlock.cmpctblock.shorttxids)

\* the slot InitData gives short id s
SlotOf(s) ==
    ShortIdMap(partialBlock.cmpctblock,
               PlacePrefilled(partialBlock.cmpctblock).txn_available)[s]

UnavailableSlots ==
    { i \in DOMAIN partialBlock.txn_available : partialBlock.txn_available[i] = NullTx }

C20_FillBlockSlots ==
    FillBlockReturned =>
        /\ Len(partialBlock.vtx_missing) # Cardinality(UnavailableSlots)
              => partialBlock.ret = READ_STATUS_INVALID
        /\ Len(partialBlock.vtx_missing) = Cardinality(UnavailableSlots)
              => /\ Len(partialBlock.vtx) = Len(partialBlock.txn_available)
                 /\ \A i \in DOMAIN partialBlock.txn_available :
                      partialBlock.vtx[i] =
                         IF i \in UnavailableSlots
                         THEN partialBlock.vtx_missing[
                                 Cardinality({ j \in UnavailableSlots : j <= i })]
                         ELSE partialBlock.txn_available[i]

C20_Witness ==
    /\ FillBlockReturned
    /\ Cardinality(UnavailableSlots) = 2
    /\ Len(partialBlock.vtx_missing) = 2
    /\ partialBlock.vtx_missing[1] # partialBlock.vtx_missing[2]
    /\ partialBlock.mempool_count = 1
    /\ 2 \in UnavailableSlots
    /\ partialBlock.ret = READ_STATUS_OK
    /\ partialBlock.vtx = partialBlock.block.vtx

(***************************************************************************)
(* C23.  addUnchecked(tx) followed by the recursive remove of tx leaves    *)
(* the pool as it was before the addition: the entries, the links, the     *)
(* spend map, the aggregates of the other entries, totalTxSize and         *)
(* cachedInnerUsage.  The prioritisation deltas are not compared.          *)
(***************************************************************************)
C23_AddThenRemoveRestores ==
    [][lastOp'.op = "addUnchecked;remove"
          => /\ lastOp'.list = lastOp'.vtx
             /\ UNCHANGED << mapTx, mapLinks, mapNextTx, totalTxSize, cachedInnerUsage >>]_vars

\* transaction 4 was added under its parents 2 and 3 and their parent 1, and removed
C23_Witness ==
    /\ lastOp.op = "addUnchecked;remove"
    /\ lastOp.vtx = << 4 >>
    /\ lastOp.list = << 4 >>
    /\ {1, 2, 3} \subseteq DOMAIN mapTx
    /\ mapTx[1].nCountWithDescendants = 3

(***************************************************************************)
(* C24.  removeForBlock(vtx) removes only the entries of vtx, the entries  *)
(* that spend an outpoint a transaction of vtx spends, and the in-pool     *)
(* descendants of those.  Every other entry stays, keeps its spends in     *)
(* mapNextTx and has no transaction of vtx left among its parents.         *)
(***************************************************************************)
RemovableForBlock(vtx) ==
    (SeqToSet(vtx) \cap DOMAIN mapTx)
        \cup DescendantClosure(DOMAIN mapTx, ConflictsOf(vtx))

C24_RemoveForBlockFrame ==
    [][confirmed' # confirmed /\ lastOp'.op = "removeForBlock" =>
          /\ (DOMAIN mapTx) \ (DOMAIN mapTx') \subseteq RemovableForBlock(lastOp'.vtx)
          /\ \A c \in (DOMAIN mapTx) \ RemovableForBlock(lastOp'.vtx) :
               /\ c \in DOMAIN mapTx'
               /\ \A o \in Prevouts(c) : o \in DOMAIN mapNextTx' /\ mapNextTx'[o].ptx = c
               /\ mapLinks'[c].parents = mapLinks[c].parents \ SeqToSet(lastOp'.vtx)
               /\ mapLinks'[c].parents \cap SeqToSet(lastOp'.vtx) = {}]_vars

\* a block of two transactions was connected; a child of one of them is still
\* in the pool, without parents and with its spends recorded
C24_Witness ==
    /\ lastOp.op = "removeForBlock"
    /\ Len(lastOp.vtx) = 2
    /\ \E c \in DOMAIN mapTx :
         /\ PrevHashes(c) \cap SeqToSet(lastOp.vtx) # {}
         /\ mapLinks[c].parents = {}
         /\ \A o \in Prevouts(c) : o \in DOMAIN mapNextTx /\ mapNextTx[o].ptx = c

(***************************************************************************)
(* C25.  Started with an empty stage, TrimMempool leaves the stage closed  *)
(* under in-pool descendants: every pool transaction that spends an output *)
(* of a staged transaction is staged, also when the call fails or when     *)
(* candidates were given up during their walk.                             *)
(***************************************************************************)
C25_StageClosed ==
    AfterStageTrim =>
        \A s \in lastOp.stage : \A c \in DOMAIN mapTx :
            s \in PrevHashes(c) => c \in lastOp.stage

\* the call failed after it had staged a transaction together with a child, and
\* left an unstaged transaction that has a child too
C25_Witness ==
    /\ AfterStageTrim
    /\ ~lastOp.fRet
    /\ \E s \in lastOp.stage : \E c \in lastOp.stage : s \in PrevHashes(c)
    /\ \E u \in DOMAIN mapTx \ lastOp.stage : \E c \in DOMAIN mapTx : u \in PrevHashes(c)

(***************************************************************************)
(* C26.  When TrimMempool has staged anything, nFeesReserved plus          *)
(* nFeesRemoved is at most feeToUse, the fee of the incoming transaction,  *)
(* and so is nFeesReserved plus the fees of the staged transactions.       *)
(***************************************************************************)
C26_FeeBudget ==
    AfterStageTrim /\ lastOp.stage # {} =>
        /\ lastOp.nFeesReserved + lastOp.nFeesRemoved <= TxOf(lastOp.toadd).nFee
        /\ lastOp.nFeesReserved + StagedFees <= TxOf(lastOp.toadd).nFee

\* fees were reserved, a transaction was staged with a descendant, and another
\* candidate was left out
C26_Witness ==
    /\ AfterStageTrim
    /\ lastOp.nFeesReserved > 0
    /\ \E s \in lastOp.stage : \E c \in lastOp.stage : s \in PrevHashes(c)
    /\ lastOp.nFeesRemoved > 0
    /\ DOMAIN mapTx \ lastOp.stage # {}

(***************************************************************************)
(* C27.  As stated: with the four limits unbounded and an empty output     *)
(* set, CalculateMemPoolAncestors returns true and setAncestors is exactly *)
(* the set of pool transactions reachable from the entry by one or more    *)
(* spends-an-output-of links, the entry itself excluded, whether the entry *)
(* is in the pool or not.  This fails for a pool entry while a             *)
(* disconnected block is being re-added.                                   *)
(***************************************************************************)
AfterAncestorsOf == lastOp.op = "CalculateMemPoolAncestors(nNoLimit)"

C27_AncestorsExactAlways ==
    AfterAncestorsOf =>
        /\ lastOp.fRet
        /\ lastOp.setAncestors = TrueAncestors(lastOp.hash)
        /\ lastOp.hash \notin lastOp.setAncestors

\* C27, amended: the result is exact whenever no block disconnection is under
\* way, and for a transaction that is not in the pool; for a pool entry asked
\* about during a disconnection it holds ancestors only, and the ones it misses
\* are re-added transactions of the block and what lies above them
C27_AncestorsExactOutsideReorg ==
    AfterAncestorsOf =>
        /\ lastOp.fRet
        /\ lastOp.hash \notin lastOp.setAncestors
        /\ lastOp.setAncestors \subseteq TrueAncestors(lastOp.hash)
        /\ (~fDisconnecting \/ lastOp.hash \notin DOMAIN mapTx)
              => lastOp.setAncestors = TrueAncestors(lastOp.hash)
        /\ TrueAncestors(lastOp.hash) \ lastOp.setAncestors
              \subseteq AncestorsIn(DOMAIN mapTx, SeqToSet(vHashUpdate))

\* a pool entry with three ancestors, two of them indirect, was asked about
C27_Witness ==
    /\ AfterAncestorsOf
    /\ ~fDisconnecting
    /\ lastOp.hash \in DOMAIN mapTx
    /\ Cardinality(lastOp.setAncestors) = 3
    /\ lastOp.setAncestors \ TrueParents(lastOp.hash) # {}

(***************************************************************************)
(* C28.  When every admission asks CalculateMemPoolAncestors with the      *)
(* descendant limits and adds only on true, no pool entry has more in-pool *)
(* descendants, itself included, than limitDescendantCount, nor a          *)
(* descendant closure larger than limitDescendantSize, dirty or not.       *)
(* This fails after a block disconnection.                                 *)
(***************************************************************************)
DescendantsWithinLimits(e) ==
    LET D == DescendantClosure(DOMAIN mapTx, {e}) IN
    /\ Cardinality(D) <= AdmissionDescendantCount
    /\ SumOver([d \in D |-> mapTx[d].nTxSize], D) <= AdmissionDescendantSize

C28_DescendantLimitsHold == \A e \in DOMAIN mapTx : DescendantsWithinLimits(e)

\* the same, for the states where no disconnection is under way
C28_DescendantLimitsHoldOutsideReorg == ~fDisconnecting => C28_DescendantLimitsHold

\* the same, for the entries that are dirty
C28_DirtyWithinLimits ==
    \A e \in DOMAIN mapTx : IsDirty(mapTx[e]) => DescendantsWithinLimits(e)

(***************************************************************************)
(* C29.  After UpdateTransactionsFromBlock(hashes), the listed             *)
(* transactions having been re-added by addUnchecked in block order, every *)
(* listed hash that is in the pool has as children exactly the pool        *)
(* entries that spend its outputs, each of which has it as a parent, and   *)
(* it is dirty or its descendant aggregates are the sums over its in-pool  *)
(* descendant closure.                                                     *)
(***************************************************************************)
SpendersInPool(pool, h) == { c \in pool : h \in PrevHashes(c) }

UpdatedLinksExact ==
    \A h \in SeqToSet(vHashUpdate) \cap DOMAIN mapTx' :
        /\ mapLinks'[h].children = SpendersInPool(DOMAIN mapTx', h)
        /\ \A c \in SpendersInPool(DOMAIN mapTx', h) : h \in mapLinks'[c].parents

UpdatedAggregatesExactOrDirty ==
    \A h \in SeqToSet(vHashUpdate) \cap DOMAIN mapTx' :
        LET D == DescendantClosure(DOMAIN mapTx', {h}) IN
        \/ IsDirty(mapTx'[h])
        \/ /\ mapTx'[h].nCountWithDescendants = Cardinality(D)
           /\ mapTx'[h].nSizeWithDescendants = SumOver([d \in D |-> mapTx'[d].nTxSize], D)
           /\ mapTx'[h].nFeesWithDescendants = SumOver([d \in D |-> mapTx'[d].nFee], D)

C29_UpdateFromBlockPost ==
    [][lastOp'.op = "UpdateTransactionsFromBlock" /\ fDisconnecting
          => UpdatedLinksExact /\ UpdatedAggregatesExactOrDirty]_vars

\* the part about the links alone
C29_UpdateFromBlockLinks ==
    [][lastOp'.op = "UpdateTransactionsFromBlock" /\ fDisconnecting
          => UpdatedLinksExact]_vars

(***************************************************************************)
(* C30.  InitData returns READ_STATUS_INVALID if a prefilled transaction   *)
(* is null, or if its absolute index (the sum of the indexes up to it plus *)
(* the number of prefilled entries before it) exceeds 65535 or exceeds the *)
(* number of short ids plus the number of prefilled entries before it.     *)
(* Otherwise the i-th prefilled transaction is in the slot of its absolute *)
(* index, and the absolute indexes are strictly increasing, so that no two *)
(* prefilled transactions share a slot.                                    *)
(***************************************************************************)
RECURSIVE AbsoluteIndex(_, _)
AbsoluteIndex(prefilledtxn, i) ==
    IF i = 0 THEN -1
    ELSE AbsoluteIndex(prefilledtxn, i - 1) + prefilledtxn[i].index + 1

PrefilledRejected(cmpctblock) ==
    \E i \in DOMAIN cmpctblock.prefilledtxn :
        \/ cmpctblock.prefilledtxn[i].tx = NullTx
        \/ AbsoluteIndex(cmpctblock.prefilledtxn, i) > UINT16_MAX
        \/ AbsoluteIndex(cmpctblock.prefilledtxn, i) > Len(cmpctblock.shorttxids) + (i - 1)

HeaderRejected(cmpctblock) ==
    \/ cmpctblock.header = NullHeader
    \/ cmpctblock.shorttxids = << >> /\ cmpctblock.prefilledtxn = << >>
    \/ BlockTxCount(cmpctblock) > MaxCompactTxCount

C30_PrefilledPlacement ==
    InitDataReturned =>
        LET cmpctblock == partialBlock.cmpctblock
            pre == cmpctblock.prefilledtxn
        IN  /\ PrefilledRejected(cmpctblock) => partialBlock.ret = READ_STATUS_INVALID
            /\ partialBlock.ret = READ_STATUS_INVALID
                  => PrefilledRejected(cmpctblock) \/ HeaderRejected(cmpctblock)
            /\ partialBlock.ret # READ_STATUS_INVALID =>
                  /\ \A i \in DOMAIN pre :
                        partialBlock.txn_available[AbsoluteIndex(pre, i) + 1] = pre[i].tx
                  /\ \A i, j \in DOMAIN pre :
                        i < j => AbsoluteIndex(pre, i) < AbsoluteIndex(pre, j)

\* two prefilled transactions were placed, the second one after a skipped slot
C30_Witness ==
    /\ InitDataReturned
    /\ partialBlock.ret # READ_STATUS_INVALID
    /\ Len(partialBlock.cmpctblock.prefilledtxn) = 2
    /\ partialBlock.cmpctblock.prefilledtxn[2].index = 1
    /\ partialBlock.txn_available[AbsoluteIndex(partialBlock.cmpctblock.prefilledtxn, 2) + 1]
          = partialBlock.cmpctblock.prefilledtxn[2].tx

(***************************************************************************)
(* C21.  On a listener registered both as mempool listener and as chain    *)
(* listener, the MempoolUpdatedForBlockConnect callback of a block is run  *)
(* before the BlockConnected callback of that block, however the queue is  *)
(* consumed.                                                               *)
(***************************************************************************)
DeliveredAt(type, vtx) ==
    { i \in DOMAIN mainSignals.delivered :
        mainSignals.delivered[i].type = type /\ mainSignals.delivered[i].block = vtx }

C21_MempoolUpdatedBeforeBlockConnected ==
    \A j \in DOMAIN mainSignals.delivered :
        mainSignals.delivered[j].type = "BlockConnected" =>
            \E i \in DeliveredAt("MempoolUpdatedForBlockConnect", mainSignals.delivered[j].block) :
                i < j

\* the callbacks of two blocks have been run, with the admission of a
\* transaction between them
C21_Witness ==
    /\ Len(mainSignals.delivered) = 5
    /\ mainSignals.delivered[2].type = "BlockConnected"
    /\ mainSignals.delivered[3].type = "TransactionAddedToMempool"
    /\ mainSignals.delivered[5].type = "BlockConnected"

(***************************************************************************)
(* C22.  No thread acquires cs_main while it holds the pool's cs:          *)
(* CreateNewBlock takes cs_main and then mempool.cs and holds both to its  *)
(* return, the pool's operations and InitData take cs only.  So no         *)
(* interleaving of these calls ends with threads waiting for each other.   *)
(***************************************************************************)
\* the locks a thread holds were taken in the order cs_main, cs
LockOrderKept(t) ==
    \A i, j \in DOMAIN threads[t].held :
        (threads[t].held[i] = "cs" /\ threads[t].held[j] = "cs_main") => j < i

\* the threads of S wait for locks that threads of S hold
WaitingForEachOther(S) ==
    /\ S # {}
    /\ \A t \in S : /\ Blocked(t)
                    /\ \E u \in S \ {t} : Holds(u, Head(threads[t].todo).cs)

\* no two threads hold the same lock
MutualExclusion ==
    \A t, u \in Threads : \A cs \in {"cs_main", "cs"} :
        (Holds(t, cs) /\ Holds(u, cs)) => t = u

C22_NoLockOrderInversion ==
    /\ \A t \in Threads : LockOrderKept(t)
    /\ MutualExclusion
    /\ \A S \in SUBSET Threads : ~WaitingForEachOther(S)
    /\ \E t \in Threads : threads[t].todo = << >> \/ ~Blocked(t)

\* one thread holds cs_main and cs, a second one waits for cs and the third
\* one for cs_main
C22_Witness ==
    /\ \E t \in Threads : threads[t].held = << "cs_main", "cs" >>
    /\ \E t \in Threads : Blocked(t) /\ Head(threads[t].todo).cs = "cs"
    /\ \E t \in Threads : Blocked(t) /\ Head(threads[t].todo).cs = "cs_main"

\* InitData got past the walk of the prefilled transactions (lines 53-68)
PastPrefilledWalk ==
    /\ InitDataReturned
    /\ partialBlock.cmpctblock.header # NullHeader
    /\ BlockTxCount(partialBlock.cmpctblock) \in 1..MaxCompactTxCount
    /\ PlacePrefilled(partialBlock.cmpctblock).ret = READ_STATUS_OK

\* the walk of the short ids of the message received, over the slots as the
\* prefilled walk left them
ShortIdWalk ==
    ShortIdSlots(PlacePrefilled(partialBlock.cmpctblock).txn_available,
                 Len(partialBlock.cmpctblock.shorttxids))

\* C31: once InitData is past the prefilled walk, the slots given to the short
\* ids are, in increasing order and one per short id, exactly the slots no
\* prefilled transaction holds, and the skip loop reads no index of
\* txn_available at or past |shorttxids| + |prefilledtxn|.
C31_ShortIdSlotsAreTheFreeSlots ==
    PastPrefilledWalk =>
        LET pre == PlacePrefilled(partialBlock.cmpctblock)
            walk == ShortIdWalk
        IN  /\ walk.slots =
                 SeqOfSet({ j \in DOMAIN pre.txn_available : pre.txn_available[j] = NullTx })
            /\ Len(walk.slots) = Len(partialBlock.cmpctblock.shorttxids)
            /\ \A k \in walk.touched :
                 k < Len(partialBlock.cmpctblock.shorttxids)
                       + Len(partialBlock.cmpctblock.prefilledtxn)

\* two short ids with a prefilled transaction in the slot between them and
\* another in the first slot: the skip loop runs for both
C31_Witness ==
    /\ PastPrefilledWalk
    /\ Len(partialBlock.cmpctblock.shorttxids) = 2
    /\ Len(partialBlock.cmpctblock.prefilledtxn) = 2
    /\ ShortIdWalk.slots = << 2, 4 >>
    /\ ShortIdWalk.touched = 0..3

\* C32: when the short-id list of a message that passed the header checks and
\* the prefilled walk holds the same short id twice, InitData returns FAILED,
\* the slots hold the prefilled transactions only and mempool_count is 0.
C32_DuplicateShortIdFails ==
    (PastPrefilledWalk /\ DuplicateShortIds) =>
        /\ partialBlock.ret = READ_STATUS_FAILED
        /\ partialBlock.txn_available = PlacePrefilled(partialBlock.cmpctblock).txn_available
        /\ partialBlock.mempool_count = 0
        /\ \A j \in DOMAIN partialBlock.txn_available :
             partialBlock.txn_available[j] # NullTx =>
                 \E i \in DOMAIN partialBlock.cmpctblock.prefilledtxn :
                     /\ AbsoluteIndex(partialBlock.cmpctblock.prefilledtxn, i) + 1 = j
                     /\ partialBlock.cmpctblock.prefilledtxn[i].tx = partialBlock.txn_available[j]

\* the short id met twice is that of a pool transaction, which the scan would
\* have put in a slot, and a prefilled transaction is in its slot
C32_Witness ==
    /\ PastPrefilledWalk
    /\ DuplicateShortIds
    /\ partialBlock.ret = READ_STATUS_FAILED
    /\ \E h \in DOMAIN mapTx : ShortIdOf(h) \in MessageShortIds
    /\ partialBlock.cmpctblock.prefilledtxn # << >>

\* the positions of the snapshot whose transaction has short id s
MatchesOf(s) ==
    { p \in DOMAIN partialBlock.vTxHashes : ShortIdOf(partialBlock.vTxHashes[p]) = s }

\* the scan of the first n transactions of the snapshot
ScanOfPrefix(n) ==
    LET pre == PlacePrefilled(partialBlock.cmpctblock)
    IN  ScanMempool(SubSeq(partialBlock.vTxHashes, 1, n),
                    [txn_available |-> pre.txn_available,
                     have_txn |-> [j \in DOMAIN pre.txn_available |-> FALSE],
                     mempool_count |-> 0, done |-> FALSE],
                    partialBlock.cmpctblock,
                    ShortIdMap(partialBlock.cmpctblock, pre.txn_available))

\* the position of the last transaction the scan looks at (line 120-121: the
\* scan is left once mempool_count is the number of short ids)
LastScanned ==
    LET stops == { n \in DOMAIN partialBlock.vTxHashes : ScanOfPrefix(n).done }
    IN  IF stops = {} THEN Len(partialBlock.vTxHashes)
        ELSE CHOOSE n \in stops : \A m \in stops : n <= m

\* C33 as the spec states it: after InitData returned OK, the slot of a short
\* id that two or more transactions of the snapshot have is unavailable,
\* wherever they sit in the snapshot
C33_CollisionSlotUnavailable ==
    (InitDataReturned /\ partialBlock.ret = READ_STATUS_OK) =>
        \A s \in MessageShortIds :
            Cardinality(MatchesOf(s)) >= 2 => partialBlock.txn_available[SlotOf(s)] = NullTx

\* C33 as it holds: after InitData returned OK, the slot of a short id that two
\* or more transactions of the snapshot have is unavailable exactly when the
\* scan reached the second of them; when the scan stopped before it, because
\* every short id had found a pool transaction, the slot holds the first.
C33_CollisionSlotUnavailableIfScanned ==
    (InitDataReturned /\ partialBlock.ret = READ_STATUS_OK) =>
        \A s \in MessageShortIds :
            Cardinality(MatchesOf(s)) >= 2 =>
                LET first == CHOOSE p \in MatchesOf(s) : \A q \in MatchesOf(s) : p <= q
                    second == CHOOSE p \in MatchesOf(s) \ {first} :
                                  \A q \in MatchesOf(s) \ {first} : p <= q
                IN  IF second <= LastScanned
                    THEN partialBlock.txn_available[SlotOf(s)] = NullTx
                    ELSE partialBlock.txn_available[SlotOf(s)] = partialBlock.vTxHashes[first]

\* three transactions of the snapshot have the short id, all of them scanned,
\* and another short id of the message found its transaction
C33_Witness ==
    /\ InitDataReturned
    /\ partialBlock.ret = READ_STATUS_OK
    /\ \E s \in MessageShortIds :
          /\ Cardinality(MatchesOf(s)) >= 3
          /\ \A p \in MatchesOf(s) : p <= LastScanned
          /\ partialBlock.txn_available[SlotOf(s)] = NullTx
    /\ partialBlock.mempool_count >= 1

\* the slots InitData filled from the pool: available and not prefilled
SlotsFromMempool ==
    { j \in DOMAIN partialBlock.txn_available :
        /\ IsTxAvailable(partialBlock.txn_available, j - 1)
        /\ PlacePrefilled(partialBlock.cmpctblock).txn_available[j] = NullTx }

\* C34: after InitData returned OK, mempool_count is the number of available
\* slots that are not prefilled, prefilled_count + mempool_count is the number
\* of slots IsTxAvailable is true for, and mempool_count was not below zero
\* after any transaction of the scan.
C34_MempoolCountExact ==
    (InitDataReturned /\ partialBlock.ret = READ_STATUS_OK) =>
        /\ partialBlock.mempool_count = Cardinality(SlotsFromMempool)
        /\ partialBlock.prefilled_count + partialBlock.mempool_count =
              Cardinality({ j \in DOMAIN partialBlock.txn_available :
                              IsTxAvailable(partialBlock.txn_available, j - 1) })
        /\ \A n \in 0..Len(partialBlock.vTxHashes) : ScanOfPrefix(n).mempool_count >= 0

\* three scanned transactions of the snapshot have one short id of the message,
\* whose slot is unavailable, and another short id was filled from the pool
C34_Witness ==
    /\ InitDataReturned
    /\ partialBlock.ret = READ_STATUS_OK
    /\ \E s \in MessageShortIds :
          /\ Cardinality({ p \in MatchesOf(s) : p <= LastScanned }) >= 3
          /\ ~IsTxAvailable(partialBlock.txn_available, SlotOf(s) - 1)
    /\ partialBlock.prefilled_count = 1
    /\ partialBlock.mempool_count = 1
    /\ Len(partialBlock.txn_available) = 3

\* the ancestors of pool entry h that are in the block being assembled
AncestorsInBlock(h) == MemPoolAncestors(Pool, h) \cap assembler.inBlock

\* the with-ancestors values of h less what its ancestors in the block add
ModifiedEntryExact(h) ==
    LET A == AncestorsInBlock(h)
    IN  /\ assembler.mapModifiedTx[h].nSizeWithAncestors =
              GetSizeWithAncestors(Pool, h) - SumOver([a \in A |-> mapTx[a].nTxSize], A)
        /\ assembler.mapModifiedTx[h].nModFeesWithAncestors =
              GetModFeesWithAncestors(Pool, h)
                 - SumOver([a \in A |-> GetModifiedFee(Pool, a)], A)
        /\ assembler.mapModifiedTx[h].nSigOpCostWithAncestors =
              GetSigOpCostWithAncestors(Pool, h)
                 - SumOver([a \in A |-> GetSigOpCost(a)], A)

\* C35 as the spec states it: at every iteration of addPackageTxs every entry
\* of mapModifiedTx has size, modified fees and sigop cost equal to the pool
\* entry's with-ancestors values less the contributions of all its ancestors
\* in the block, an entry erased as failed and inserted again included
C35_ModifiedEntriesExact ==
    assembler.phase = "packages" =>
        \A h \in DOMAIN assembler.mapModifiedTx : ModifiedEntryExact(h)

\* the same for the entries that never failed
C35_UnfailedEntriesExact ==
    assembler.phase = "packages" =>
        \A h \in DOMAIN assembler.mapModifiedTx \ assembler.failedTx : ModifiedEntryExact(h)

(***************************************************************************)
(* C36, C37.  RemoveRecentTransactionsFromBlock.                           *)
(***************************************************************************)
RemoveRecentCalled == assembler.phase = "recent"

\* the transactions of the block the function was given
IncludedBefore ==
    { assembler.before.vtx[i] : i \in DOMAIN assembler.before.vtx } \ {NullTransactionRef}

\* a transaction of the block is removed when its entry time is not before the
\* cutoff or when it descends from such a transaction of the block
RemovedByCutoff ==
    { h \in IncludedBefore :
        \E a \in (MemPoolAncestors(Pool, h) \cup {h}) \cap IncludedBefore :
            mapTx[a].nTime >= assembler.timeCutoff }

\* the transactions that are to remain, in their order in the block
RemainingInOrder ==
    SelectSeq(assembler.before.vtx, LAMBDA h : h \in IncludedBefore \ RemovedByCutoff)

\* C36 as the spec states it: after RemoveRecentTransactionsFromBlock(cutoff)
\* block.vtx is the list of the transactions included before whose entry time
\* is before the cutoff and that descend from no removed transaction, in their
\* order, and vTxFees and vTxSigOpsCost have one element per transaction left
C36_RemainingTransactionsExact ==
    RemoveRecentCalled =>
        /\ assembler.ret = "returned"
        /\ assembler.after.vtx = RemainingInOrder
        /\ Len(assembler.after.vTxFees) = Len(RemainingInOrder)
        /\ Len(assembler.after.vTxSigOpsCost) = Len(RemainingInOrder)

\* C37 as the spec states it: after RemoveRecentTransactionsFromBlock the
\* totals nBlockWeight, nBlockTx, nBlockSigOpsCost and nFees are the sums over
\* the transactions that remain (above what is reserved for the coinbase) and
\* inBlock is the set of the transactions that remain
C37_TotalsReconciled ==
    RemoveRecentCalled =>
        LET R == IncludedBefore \ RemovedByCutoff
        IN  /\ assembler.ret = "returned"
            /\ assembler.after.nBlockWeight =
                  CoinbaseReservedWeight + SumOver([h \in R |-> GetTxWeight(h)], R)
            /\ assembler.after.nBlockTx = Cardinality(R)
            /\ assembler.after.nBlockSigOpsCost =
                  CoinbaseReservedSigOps + SumOver([h \in R |-> GetSigOpCost(h)], R)
            /\ assembler.after.nFees = SumOver([h \in R |-> mapTx[h].nFee], R)
            /\ assembler.after.inBlock = R

\* what the function does when it returns: the transactions that remain are
\* at the front of block.vtx, in their order, with their fees and sigop costs,
\* and the three lists keep the length they had
C36_RemainingAtFront ==
    (RemoveRecentCalled /\ assembler.ret = "returned") =>
        LET n == Len(RemainingInOrder)
        IN  /\ SubSeq(assembler.after.vtx, 1, n) = RemainingInOrder
            /\ \A i \in 1..n :
                 /\ assembler.after.vTxFees[i] = mapTx[RemainingInOrder[i]].nFee
                 /\ assembler.after.vTxSigOpsCost[i] = GetSigOpCost(RemainingInOrder[i])
            /\ Len(assembler.after.vtx) = Len(assembler.before.vtx)
            /\ Len(assembler.after.vTxFees) = Len(assembler.before.vtx)
            /\ Len(assembler.after.vTxSigOpsCost) = Len(assembler.before.vtx)
            /\ \A i \in (n + 1)..Len(assembler.after.vtx) :
                 assembler.after.vtx[i] = NullTransactionRef

\* what the function does when it returns: every total but nFees is the sum
\* over the transactions that remain, inBlock is their set, and nFees is what
\* it was
C37_TotalsButFees ==
    (RemoveRecentCalled /\ assembler.ret = "returned") =>
        LET R == IncludedBefore \ RemovedByCutoff
        IN  /\ assembler.after.nBlockWeight =
                  CoinbaseReservedWeight + SumOver([h \in R |-> GetTxWeight(h)], R)
            /\ assembler.after.nBlockTx = Cardinality(R)
            /\ assembler.after.nBlockSigOpsCost =
                  CoinbaseReservedSigOps + SumOver([h \in R |-> GetSigOpCost(h)], R)
            /\ assembler.after.inBlock = R
            /\ assembler.after.nFees = assembler.before.nFees

\* the function returns only when block.vtx does not start with the dummy
\* coinbase
RemoveRecentReturnsWithoutDummy ==
    RemoveRecentCalled =>
        (assembler.ret = "returned" <=>
            (assembler.before.vtx = << >> \/ assembler.before.vtx[1] # NullTransactionRef))

(***************************************************************************)
(* C38.  The calls removeForBlock makes on the fee estimator.              *)
(***************************************************************************)
\* the pool entries of the transactions of vtx, in the order of vtx
EntriesOfBlock(vtx) ==
    LET inPool == SelectSeq(vtx, LAMBDA h : h \in DOMAIN mapTx)
    IN  [i \in 1..Len(inPool) |-> [hash |-> inPool[i], entry |-> mapTx[inPool[i]]]]

\* C38: in removeForBlock the entries handed to processBlock are the pool
\* entries of the block's transactions as they were before any removal, in
\* block order; processBlock is called once, as the last call on the
\* estimator, when no transaction of the block and no conflict is in the pool,
\* and removeTx was called before it for each transaction removed.
C38_ProcessBlockAfterRemovals ==
    [][confirmed' # confirmed /\ lastOp'.op = "removeForBlock" =>
          LET calls == lastOp'.estimator
              n == Len(calls)
          IN  /\ n >= 1
              /\ calls[n].call = "processBlock"
              /\ calls[n].entries = EntriesOfBlock(lastOp'.vtx)
              /\ \A i \in 1..(n - 1) : calls[i].call = "removeTx"
              /\ { calls[i].hash : i \in 1..(n - 1) } = (DOMAIN mapTx) \ (DOMAIN mapTx')
              /\ n - 1 = Cardinality((DOMAIN mapTx) \ (DOMAIN mapTx'))
              /\ SeqToSet(lastOp'.vtx) \cap DOMAIN mapTx' = {}
              /\ ConflictsOf(lastOp'.vtx) \cap DOMAIN mapTx' = {}
              /\ ConflictsOf(lastOp'.vtx) \subseteq { calls[i].hash : i \in 1..(n - 1) }]_vars

\* a block was connected whose transaction had descendants in the pool when
\* its entry was copied, and a conflict was removed with a descendant
C38_Witness ==
    /\ lastOp.op = "removeForBlock"
    /\ Len(lastOp.list) >= 2
    /\ Len(lastOp.estimator) >= 4
    /\ lastOp.estimator[Len(lastOp.estimator)].entries # << >>
    /\ \E i \in DOMAIN lastOp.estimator[Len(lastOp.estimator)].entries :
          lastOp.estimator[Len(lastOp.estimator)].entries[i].entry.nCountWithDescendants > 1

(***************************************************************************)
(* C39.  check() on a pool without cycles (the transactions of the model   *)
(* have none) whose every input is in the coins view or is an output of a  *)
(* pool entry.                                                             *)
(***************************************************************************)
InputsAvailable ==
    \A h \in DOMAIN mapTx : \A o \in Prevouts(h) : o[1] \in DOMAIN mapTx \/ o \in pcoins

InWaitingLoop == lastOp.op = "check" /\ lastOp.phase = "loop"

LoopLeft == lastOp.op = "check" /\ lastOp.phase = "done"

\* every entry was applied to mempoolDuplicate after all its parents in the pool
AppliedAfterParents ==
    \A i \in 1..Len(lastOp.applied) :
        (PrevHashes(lastOp.applied[i]) \cap DOMAIN mapTx)
            \subseteq { lastOp.applied[j] : j \in 1..(i - 1) }

WaitingLoopSafe ==
    (lastOp.op = "check" /\ InputsAvailable) =>
        /\ lastOp.asserted
        /\ lastOp.phase # "aborted"
        /\ lastOp.stepsSinceLastRemove > 0 =>
              lastOp.stepsSinceLastRemove < Len(lastOp.waitingOnDependants)
        /\ AppliedAfterParents
        /\ SeqToSet(lastOp.applied) \cap SeqToSet(lastOp.waitingOnDependants) = {}
        /\ SeqToSet(lastOp.applied) \cup SeqToSet(lastOp.waitingOnDependants) = DOMAIN mapTx

\* C39: with every input of the pool in the coins view or created by a pool
\* entry, the assertion stepsSinceLastRemove < waitingOnDependants.size()
\* never fails, every entry is applied only after all its parents in the
\* pool, and the waiting loop is left with every entry applied
C39_WaitingLoopTerminates ==
    /\ []WaitingLoopSafe
    /\ (InWaitingLoop /\ InputsAvailable) ~>
          (LoopLeft /\ SeqToSet(lastOp.applied) = DOMAIN mapTx)

\* the loop was left after an entry had been sent to the back of the list:
\* two waiting entries were applied in the reverse of the order of the walk
C39_Witness ==
    /\ LoopLeft
    /\ InputsAvailable
    /\ \E i, j \in 1..Len(lastOp.applied), k, l \in 1..Len(lastOp.order) :
          /\ i < j /\ l < k
          /\ lastOp.applied[i] = lastOp.order[k]
          /\ lastOp.applied[j] = lastOp.order[l]
          /\ PrevHashes(lastOp.applied[i]) \cap DOMAIN mapTx # {}
          /\ PrevHashes(lastOp.applied[j]) \cap DOMAIN mapTx # {}

====
